---- MODULE Spec2Model ----
(***************************************************************************)
(* A model of the pragtical render cache (src/src/rencache.c), of the      *)
(* renderer and canvas Lua bindings that drive it (src/src/api/renderer.c, *)
(* src/src/api/canvas.c) and of the surface operations it replays          *)
(* (src/src/renderer.c, src/src/renwindow.c).                              *)
(*                                                                         *)
(* The build modelled is the default one (no PRAGTICAL_USE_SDL_RENDERER):  *)
(* RECT_TYPE is int, every surface has scale 1, and the target is LP64     *)
(* little-endian (alignof(max_align_t) = 16, 8-byte pointers and size_t).  *)
(* The cell grid is scaled down: the cell size and the grid dimensions are *)
(* bounds of the model, not the 60 / 128 / 72 of rencache.h.               *)
(***************************************************************************)
EXTENDS Integers, Sequences, FiniteSets, TLC

(***************************************************************************)
(* Bounds of the model.                                                    *)
(***************************************************************************)
\* side of a dirty-grid cell in pixels (60 in rencache.h)
CellSize == 2
\* cells per grid row (128 in rencache.h)
CellsX == 4
\* grid rows (72 in rencache.h)
CellsY == 3
\* frames (begin_frame calls) in a run of Spec
MaxFrames == 2
\* records pushed in a run of Spec
MaxCmds == 2
\* renders in a run of SpecC
MaxCFrames == 2
\* records pushed and blits made in a run of SpecC
MaxCCmds == 3
\* frames in a run of SpecW
MaxWFrames == 3
\* records pushed in a run of SpecW
MaxWCmds == 3
\* canvases made by renderer.to_canvas in a run
MaxSnaps == 1
\* frames and records pushed in a run of SpecR
MaxRFrames == 3
MaxRCmds == 2
\* frames and records pushed in a run of SpecG
MaxGFrames == 2
MaxGCmds == 3
\* frames and calls that use the budget in a run of SpecK
MaxKFrames == 3
MaxKCmds == 3
\* the fonts a run makes and the font calls it makes
MaxRenWindows == 3
MaxHandles == 4
MaxTFrames == 2
MaxTCmds == 4
MaxYFrames == 2
MaxYCmds == 2
\* the most points one draw_poly call may give, scaled down
MAX_POLY_POINTS == 5
MaxPFrames == 2
MaxPCmds == 3
MaxFonts == 2
MaxFCalls == 4

(***************************************************************************)
(* Program constants.                                                      *)
(***************************************************************************)
CMD_BUF_INIT_SIZE == 524288
FONT_FALLBACK_MAX == 10
\* enum CommandType
SET_CLIP == 0
DRAW_TEXT == 1
DRAW_RECT == 2
DRAW_POLY == 3
DRAW_CANVAS == 4
\* offsetof(Command, command): the type and size words
COMMAND_BARE_SIZE == 8
\* alignof(max_align_t)
MaxAlign == 16

(***************************************************************************)
(* Rectangles (RenRect) and the rectangle helpers of rencache.c.           *)
(***************************************************************************)
Rect(x, y, w, h) == [x |-> x, y |-> y, width |-> w, height |-> h]

rencache_min(a, b) == IF a < b THEN a ELSE b
rencache_max(a, b) == IF a > b THEN a ELSE b

rects_overlap(a, b) ==
  /\ b.x + b.width >= a.x
  /\ b.x <= a.x + a.width
  /\ b.y + b.height >= a.y
  /\ b.y <= a.y + a.height

intersect_rects(a, b) ==
  LET x1 == rencache_max(a.x, b.x)
      y1 == rencache_max(a.y, b.y)
      x2 == rencache_min(a.x + a.width, b.x + b.width)
      y2 == rencache_min(a.y + a.height, b.y + b.height)
  IN Rect(x1, y1, rencache_max(0, x2 - x1), rencache_max(0, y2 - y1))

merge_rects(a, b) ==
  LET x1 == rencache_min(a.x, b.x)
      y1 == rencache_min(a.y, b.y)
      x2 == rencache_max(a.x + a.width, b.x + b.width)
      y2 == rencache_max(a.y + a.height, b.y + b.height)
  IN Rect(x1, y1, x2 - x1, y2 - y1)

\* the pixels <<x, y>> a rectangle holds
InRect(p, r) ==
  /\ r.x <= p[1] /\ p[1] < r.x + r.width
  /\ r.y <= p[2] /\ p[2] < r.y + r.height

(***************************************************************************)
(* The 32-bit FNV-1a hash.  A 32-bit word is kept as its four bytes,       *)
(* least significant first, which is also the order in which hash() reads  *)
(* the bytes of an unsigned on a little-endian target.                     *)
(***************************************************************************)
Byte(n, i) == (n \div (256 ^ i)) % 256
Word32(n) == <<Byte(n, 0), Byte(n, 1), Byte(n, 2), Byte(n, 3)>>

Bit(a, i) == (a \div (2 ^ i)) % 2
Xor8(a, b) ==
    ((Bit(a, 0) + Bit(b, 0)) % 2)
  + ((Bit(a, 1) + Bit(b, 1)) % 2) * 2
  + ((Bit(a, 2) + Bit(b, 2)) % 2) * 4
  + ((Bit(a, 3) + Bit(b, 3)) % 2) * 8
  + ((Bit(a, 4) + Bit(b, 4)) % 2) * 16
  + ((Bit(a, 5) + Bit(b, 5)) % 2) * 32
  + ((Bit(a, 6) + Bit(b, 6)) % 2) * 64
  + ((Bit(a, 7) + Bit(b, 7)) % 2) * 128

\* 2166136261 = 0x811C9DC5
HASH_INITIAL == <<197, 157, 28, 129>>
\* a grid word after memset(.., 0xff, ..) and after memset(.., 0, ..)
HashAllOnes == <<255, 255, 255, 255>>
HashZero == <<0, 0, 0, 0>>

\* one step of hash(): *h = (*h ^ byte) * 16777619, modulo 2^32.
\* 16777619 = 2^24 + 403, so the product is h * 403 plus the low byte
\* of h moved to the top byte.
hash_step(h, byte) ==
  LET b0 == Xor8(h[1], byte)
      t0 == b0 * 403
      t1 == h[2] * 403 + (t0 \div 256)
      t2 == h[3] * 403 + (t1 \div 256)
      t3 == h[4] * 403 + (t2 \div 256) + b0
  IN <<t0 % 256, t1 % 256, t2 % 256, t3 % 256>>

\* the loop of hash() over the bytes lo..hi of data, in order; the range
\* is halved, and h is looked at before it is used, so that the evaluation
\* stays shallow (h is always a word of four bytes)
RECURSIVE hash_from(_, _, _, _)
hash_from(h, data, lo, hi) ==
  IF lo > hi \/ Len(h) # 4 THEN h
  ELSE IF lo = hi THEN hash_step(h, data[lo])
  ELSE LET mid == (lo + hi) \div 2
       IN hash_from(hash_from(h, data, lo, mid), data, mid + 1, hi)

\* hash(&h, data, size) over a byte sequence
hash(h, data) == hash_from(h, data, 1, Len(data))

(***************************************************************************)
(* Colours, fonts and the other values a record carries.                   *)
(***************************************************************************)
Color(r, g, b, a) == [r |-> r, g |-> g, b |-> b, a |-> a]

\* RenColor is { uint8_t b, g, r, a; }
ColorBytes(c) == <<c.b, c.g, c.r, c.a>>

Zeros(n) == [i \in 1..n |-> 0]
Word64(n) == Word32(n) \o Zeros(4)
RectBytes(r) == Word32(r.x) \o Word32(r.y) \o Word32(r.width) \o Word32(r.height)

\* the IEEE-754 single of a small whole number, as stored in text_x and
\* in a RenPoint
FloatBytes(x) ==
  CASE x = 0 -> <<0, 0, 0, 0>>
    [] x = 1 -> <<0, 0, 128, 63>>
    [] x = 2 -> <<0, 0, 0, 64>>
    [] x = 3 -> <<0, 0, 64, 64>>
    [] x = 4 -> <<0, 0, 128, 64>>
    [] x = 5 -> <<0, 0, 160, 64>>
    [] x = 6 -> <<0, 0, 192, 64>>
    [] x = 7 -> <<0, 0, 224, 64>>
    [] OTHER -> <<0, 0, 0, 65>>

\* RenTab { double offset; } with the offset NAN that luaXL_checktab gives
\* when no tab table is passed
TabNone == <<0, 0, 0, 0, 0, 0, 248, 127>>

\* the fonts of the model, and the address a RenFont* holds
Fonts == {"font1"}
NoFont == "nofont"
FontAddr(f) == IF f = "font1" THEN 4096 ELSE IF f = "font2" THEN 4352 ELSE 0

\* font_retrieve: a single font gives a group with the other slots null
font_retrieve(f) == [i \in 1..FONT_FALLBACK_MAX |-> IF i = 1 THEN f ELSE NoFont]

RECURSIVE FontPtrBytes(_, _)
FontPtrBytes(fonts, i) ==
  IF i > Len(fonts) THEN <<>>
  ELSE Word64(FontAddr(fonts[i])) \o FontPtrBytes(fonts, i + 1)

\* the address a RenCanvasRef* holds
RefAddr(id) == 8192 + 64 * id

\* polygon point tags
POLY_NORMAL == 0
POLY_CONTROL_CONIC == 1
POLY_CONTROL_CUBIC == 2

RECURSIVE PointBytes(_, _)
PointBytes(points, i) ==
  IF i > Len(points) THEN <<>>
  ELSE FloatBytes(points[i].x) \o FloatBytes(points[i].y)
         \o <<points[i].tag, 0, 0, 0>> \o PointBytes(points, i + 1)

(***************************************************************************)
(* Records of the command buffer.  A record is kept as its fields; its     *)
(* bytes, as memset and the field stores of the rencache_* functions leave *)
(* them, are given by CommandBytes.                                        *)
(***************************************************************************)
\* the size push_command gives a record: the payload plus the bare header,
\* rounded up to the alignment
AlignedSize(payload) ==
  ((payload + COMMAND_BARE_SIZE + (MaxAlign - 1)) \div MaxAlign) * MaxAlign

\* sizeof of the command structs
SizeofSetClip == 16
SizeofDrawRect == 20
SizeofDrawText == 136
SizeofDrawBezier == 24
SizeofRenPoint == 12
SizeofDrawCanvas == 32

PadTo(bytes, size) == bytes \o Zeros(size - Len(bytes))

\* CommandBytes with the version field of a DRAW_CANVAS record left zero
\* (for C21)
CommandBytes_no_version(cmd) ==
  LET head == Word32(cmd.type) \o Word32(cmd.size) \o RectBytes(cmd.rect)
      body ==
        CASE cmd.type = SET_CLIP -> <<>>
          [] cmd.type = DRAW_RECT -> ColorBytes(cmd.color)
          [] cmd.type = DRAW_TEXT ->
               ColorBytes(cmd.color) \o Zeros(4) \o FontPtrBytes(cmd.fonts, 1)
                 \o FloatBytes(cmd.text_x) \o Zeros(4) \o Word64(cmd.len)
                 \o <<cmd.tab_size>> \o Zeros(7) \o TabNone \o cmd.text
          [] cmd.type = DRAW_POLY ->
               ColorBytes(cmd.color) \o <<cmd.npoints % 256, cmd.npoints \div 256>>
                 \o Zeros(2) \o PointBytes(cmd.points, 1)
          [] cmd.type = DRAW_CANVAS ->
               Zeros(8) \o Word64(RefAddr(cmd.canvas_ref))
  IN PadTo(head \o body, cmd.size)

CommandBytes(cmd) ==
  LET head == Word32(cmd.type) \o Word32(cmd.size) \o RectBytes(cmd.rect)
      body ==
        CASE cmd.type = SET_CLIP -> <<>>
          [] cmd.type = DRAW_RECT -> ColorBytes(cmd.color)
          [] cmd.type = DRAW_TEXT ->
               ColorBytes(cmd.color) \o Zeros(4) \o FontPtrBytes(cmd.fonts, 1)
                 \o FloatBytes(cmd.text_x) \o Zeros(4) \o Word64(cmd.len)
                 \o <<cmd.tab_size>> \o Zeros(7) \o TabNone \o cmd.text
          [] cmd.type = DRAW_POLY ->
               ColorBytes(cmd.color) \o <<cmd.npoints % 256, cmd.npoints \div 256>>
                 \o Zeros(2) \o PointBytes(cmd.points, 1)
          [] cmd.type = DRAW_CANVAS ->
               Word64(cmd.version) \o Word64(RefAddr(cmd.canvas_ref))
  IN PadTo(head \o body, cmd.size)

\* hash(&h, cmd, cmd->size) from HASH_INITIAL
CommandHash(cmd) == hash(HASH_INITIAL, CommandBytes(cmd))

(***************************************************************************)
(* Surfaces.  A surface is its size, its clip rectangle and its pixels; a  *)
(* pixel is <<r, g, b, a>>.  The drawing operations return the surface     *)
(* they leave.                                                             *)
(***************************************************************************)
PixelsOf(w, h) == (0..(w - 1)) \X (0..(h - 1))

NewSurface(w, h, pixel) ==
  [w |-> w, h |-> h, clip |-> Rect(0, 0, w, h),
   px |-> [p \in PixelsOf(w, h) |-> pixel]]

\* ren_get_size at scale 1
ren_get_size(surf) == <<surf.w, surf.h>>

\* ren_set_clip_rect with the clip left as it is (for C10)
ren_set_clip_rect_ignored(surf, rect) == surf

\* ren_set_clip_rect -> SDL_SetSurfaceClipRect: the clip is the rectangle
\* cut to the surface
ren_set_clip_rect(surf, rect) ==
  [surf EXCEPT !.clip = intersect_rects(rect, Rect(0, 0, surf.w, surf.h))]

\* source-over blending of one channel, and of a pixel, with alpha a
BlendChannel(s, d, a) == (s * a + d * (255 - a)) \div 255
BlendPixel(color, dst) ==
  <<BlendChannel(color.r, dst[1], color.a),
    BlendChannel(color.g, dst[2], color.a),
    BlendChannel(color.b, dst[3], color.a),
    color.a + (dst[4] * (255 - color.a)) \div 255>>

\* ren_draw_rect with no test of the clip (for C6)
ren_draw_rect_unclipped(surf, rect, color) ==
  IF color.a = 0 THEN surf
  ELSE [surf EXCEPT !.px =
         [p \in DOMAIN surf.px |->
            IF InRect(p, rect)
            THEN IF color.a = 255
                 THEN <<color.r, color.g, color.b, 255>>
                 ELSE BlendPixel(color, surf.px[p])
            ELSE surf.px[p]]]

\* ren_draw_rect: nothing for alpha 0, a fill for alpha 255, a blend
\* otherwise, in both cases inside the surface's clip
ren_draw_rect(surf, rect, color) ==
  IF color.a = 0 THEN surf
  ELSE [surf EXCEPT !.px =
         [p \in DOMAIN surf.px |->
            IF InRect(p, rect) /\ InRect(p, surf.clip)
            THEN IF color.a = 255
                 THEN <<color.r, color.g, color.b, 255>>
                 ELSE BlendPixel(color, surf.px[p])
            ELSE surf.px[p]]]

\* The fonts of the model: every byte of a text is one glyph, one pixel wide
\* and one pixel high, fully covered, with an advance of one pixel.
FontMetrics == [height |-> 1, xadvance |-> 1, tab_size |-> 2]
GlyphAdvance == FontMetrics.xadvance
ren_font_group_get_width(fonts, text) == Len(text) * GlyphAdvance
ren_font_group_get_height(fonts) == FontMetrics.height
ren_font_group_get_tab_size(fonts) == FontMetrics.tab_size

\* the per-channel blend of ren_draw_text for a glyph pixel of coverage 255
TextChannel(c, d, a) == (c * 255 * a + d * (65025 - 255 * a) + 32767) \div 65025

\* ren_draw_text: glyph i covers pixel (x + i - 1, y); pixels outside the
\* clip are skipped and the destination alpha is kept
ren_draw_text(surf, fonts, text, x, y, color) ==
  IF color.a = 0 THEN surf
  ELSE [surf EXCEPT !.px =
         [p \in DOMAIN surf.px |->
            IF /\ p[2] = y /\ p[1] >= x /\ p[1] < x + Len(text) * GlyphAdvance
               /\ InRect(p, surf.clip)
            THEN <<TextChannel(color.r, surf.px[p][1], color.a),
                   TextChannel(color.g, surf.px[p][2], color.a),
                   TextChannel(color.b, surf.px[p][3], color.a),
                   surf.px[p][4]>>
            ELSE surf.px[p]]]

\* ren_poly_cbox: the bounding box of the points
SeqMin(f, n) == CHOOSE m \in {f[i] : i \in 1..n} : \A i \in 1..n : m <= f[i]
SeqMax(f, n) == CHOOSE m \in {f[i] : i \in 1..n} : \A i \in 1..n : m >= f[i]
ren_poly_cbox(points) ==
  LET n == Len(points)
      xs == [i \in 1..n |-> points[i].x]
      ys == [i \in 1..n |-> points[i].y]
  IN Rect(SeqMin(xs, n), SeqMin(ys, n),
          SeqMax(xs, n) - SeqMin(xs, n), SeqMax(ys, n) - SeqMin(ys, n))

\* ren_draw_poly for the polygons of the model, which are axis-aligned
\* rectangles: the fill is the bounding box, inside the clip
ren_draw_poly(surf, points, color) ==
  ren_draw_rect(surf, ren_poly_cbox(points), color)

\* ren_draw_canvas: a blended blit of a whole source surface to (x, y),
\* inside the destination's clip
BlitPixel(src, dst) ==
  BlendPixel(Color(src[1], src[2], src[3], src[4]), dst)
ren_draw_canvas(surf, src, x, y) ==
  [surf EXCEPT !.px =
    [p \in DOMAIN surf.px |->
       IF InRect(p, Rect(x, y, src.w, src.h)) /\ InRect(p, surf.clip)
       THEN BlitPixel(src.px[<<p[1] - x, p[2] - y>>], surf.px[p])
       ELSE surf.px[p]]]

\* SDL_BlitSurface as canvas.draw_canvas uses it: blended, or a plain copy
\* with blending off
SDL_BlitSurface(surf, src, x, y, blend) ==
  [surf EXCEPT !.px =
    [p \in DOMAIN surf.px |->
       IF InRect(p, Rect(x, y, src.w, src.h)) /\ InRect(p, surf.clip)
       THEN IF blend THEN BlitPixel(src.px[<<p[1] - x, p[2] - y>>], surf.px[p])
            ELSE src.px[<<p[1] - x, p[2] - y>>]
       ELSE surf.px[p]]]

(***************************************************************************)
(* The render cache (RenCache) and the passes of rencache_end_frame.       *)
(***************************************************************************)
CellIndexes == 0..(CellsX * CellsY - 1)

\* C's integer division, which truncates toward zero
CDiv(a, b) == IF a >= 0 THEN a \div b ELSE -((-a) \div b)

cell_idx(x, y) == x + y * CellsX

\* rencache_init: everything zero, cells_prev on cells_buf1 and cells on
\* cells_buf2; window tells whether the cache presents to a window
rencache_init(window) ==
  [command_buf |-> <<>>, command_buf_idx |-> 0, command_buf_size |-> 0,
   cells_buf1 |-> [i \in CellIndexes |-> HashZero],
   cells_buf2 |-> [i \in CellIndexes |-> HashZero],
   cells_prev |-> 1, cells |-> 2,
   rect_buf |-> <<>>,
   resize_issue |-> FALSE,
   screen_rect |-> Rect(0, 0, 0, 0),
   last_clip_rect |-> Rect(0, 0, 0, 0),
   window |-> window]

\* the grid a cells / cells_prev pointer refers to, and a store through it
GridOf(rc, which) == IF which = 1 THEN rc.cells_buf1 ELSE rc.cells_buf2
SetGrid(rc, which, grid) ==
  IF which = 1 THEN [rc EXCEPT !.cells_buf1 = grid]
  ELSE [rc EXCEPT !.cells_buf2 = grid]

\* rencache_invalidate: 0xff over the whole previous grid
rencache_invalidate(rc) ==
  SetGrid(rc, rc.cells_prev, [i \in CellIndexes |-> HashAllOnes])

\* the test of rencache_begin_frame: the surface's size against screen_rect
SizeChanged(rc, surf) ==
  rc.screen_rect.width # ren_get_size(surf)[1]
    \/ ren_get_size(surf)[2] # rc.screen_rect.height

\* rencache_begin_frame with no rencache_invalidate on a change of size
\* (for C8)
rencache_begin_frame_no_invalidate(rc, surf) ==
  LET size == ren_get_size(surf)
      rc1 == [rc EXCEPT !.resize_issue = FALSE,
                        !.screen_rect.width = size[1],
                        !.screen_rect.height = size[2]]
  IN [rc1 EXCEPT !.last_clip_rect = rc1.screen_rect]

\* rencache_begin_frame on a cache whose surface is surf
rencache_begin_frame(rc, surf) ==
  LET size == ren_get_size(surf)
      rc1 == [rc EXCEPT !.resize_issue = FALSE]
      rc2 == IF rc1.screen_rect.width # size[1] \/ size[2] # rc1.screen_rect.height
             THEN rencache_invalidate(
                    [rc1 EXCEPT !.screen_rect.width = size[1],
                                !.screen_rect.height = size[2]])
             ELSE rc1
  IN [rc2 EXCEPT !.last_clip_rect = rc2.screen_rect]

\* expand_command_buffer: the size it asks realloc for
ExpandedSize(size) == IF (size * 6) \div 5 = 0 THEN CMD_BUF_INIT_SIZE ELSE (size * 6) \div 5

RECURSIVE GrowTo(_, _)
GrowTo(size, n) == IF n > size THEN GrowTo(ExpandedSize(size), n) ELSE size

\* push_command without its test of resize_issue (for C17)
push_command_ignores_issue(rc, cmd, alloc_ok) ==
  LET n == rc.command_buf_idx + cmd.size
  IN IF n > rc.command_buf_size /\ ~alloc_ok
     THEN [rc |-> [rc EXCEPT !.resize_issue = TRUE], pushed |-> FALSE]
     ELSE [rc |-> [rc EXCEPT !.command_buf_size = GrowTo(rc.command_buf_size, n),
                             !.command_buf_idx = n,
                             !.command_buf = Append(rc.command_buf, cmd)],
           pushed |-> TRUE]

\* push_command that grows the buffer to the size needed and no further
\* (for C16)
push_command_exact_fit(rc, cmd, alloc_ok) ==
  IF rc.resize_issue THEN [rc |-> rc, pushed |-> FALSE]
  ELSE LET n == rc.command_buf_idx + cmd.size
       IN IF n > rc.command_buf_size /\ ~alloc_ok
          THEN [rc |-> [rc EXCEPT !.resize_issue = TRUE], pushed |-> FALSE]
          ELSE [rc |-> [rc EXCEPT !.command_buf_size =
                                     IF n > @ THEN n ELSE @,
                                  !.command_buf_idx = n,
                                  !.command_buf = Append(rc.command_buf, cmd)],
                pushed |-> TRUE]

\* push_command for a record cmd whose size field is already the aligned
\* size; alloc_ok tells whether realloc succeeds when the buffer must grow.
\* The result is the cache and whether a record was handed out.
\* push_command advancing the write index by the payload only (for C35)
push_command_bare(rc, cmd, alloc_ok) ==
  IF rc.resize_issue THEN [rc |-> rc, pushed |-> FALSE]
  ELSE LET n == rc.command_buf_idx + cmd.size
       IN IF n > rc.command_buf_size /\ ~alloc_ok
          THEN [rc |-> [rc EXCEPT !.resize_issue = TRUE], pushed |-> FALSE]
          ELSE [rc |-> [rc EXCEPT !.command_buf_size = GrowTo(rc.command_buf_size, n),
                                  !.command_buf_idx = n - COMMAND_BARE_SIZE,
                                  !.command_buf = Append(rc.command_buf, cmd)],
                pushed |-> TRUE]

push_command(rc, cmd, alloc_ok) ==
  IF rc.resize_issue THEN [rc |-> rc, pushed |-> FALSE]
  ELSE LET n == rc.command_buf_idx + cmd.size
       IN IF n > rc.command_buf_size /\ ~alloc_ok
          THEN [rc |-> [rc EXCEPT !.resize_issue = TRUE], pushed |-> FALSE]
          ELSE [rc |-> [rc EXCEPT !.command_buf_size = GrowTo(rc.command_buf_size, n),
                                  !.command_buf_idx = n,
                                  !.command_buf = Append(rc.command_buf, cmd)],
                pushed |-> TRUE]

\* whether a push of cmd has to grow the buffer
NeedsGrow(rc, cmd) ==
  ~rc.resize_issue /\ rc.command_buf_idx + cmd.size > rc.command_buf_size

\* The records lie one after the other from offset 0 of command_buf, each
\* as long as its size field says.  RecordOffset is where the i-th record
\* pushed lies; SizeAt is the size field read at an offset (0 where no
\* record starts: what is read there is no size anyone wrote).
RECURSIVE RecordOffset(_, _)
RecordOffset(command_buf, i) ==
  IF i <= 1 THEN 0
  ELSE RecordOffset(command_buf, i - 1) + command_buf[i - 1].size
SizeAt(command_buf, offset) ==
  IF \E i \in DOMAIN command_buf : RecordOffset(command_buf, i) = offset
  THEN command_buf[CHOOSE i \in DOMAIN command_buf :
                     RecordOffset(command_buf, i) = offset].size
  ELSE 0

\* next_command: prev is the offset of the record visited last, NoCommand
\* before the first; more tells whether the new offset is a record's
NoCommand == -1
next_command(rc, prev) ==
  LET next == IF prev = NoCommand THEN 0 ELSE prev + SizeAt(rc.command_buf, prev)
  IN [prev |-> next, more |-> next # rc.command_buf_idx]

\* the loop `while (next_command(ren_cache, &cmd))` of both passes: the
\* offsets visited; turns counts the turns the loop may still take
RECURSIVE command_walk(_, _, _, _)
command_walk(rc, prev, visited, turns) ==
  LET nc == next_command(rc, prev)
  IN IF ~nc.more THEN [visited |-> visited, ended |-> TRUE, at |-> nc.prev]
     ELSE IF turns = 0 THEN [visited |-> visited, ended |-> FALSE, at |-> nc.prev]
     ELSE command_walk(rc, nc.prev, Append(visited, nc.prev), turns - 1)

RECURSIVE HashTimes(_, _, _)
HashTimes(h, data, n) == IF n = 0 THEN h ELSE HashTimes(hash(h, data), data, n - 1)

\* update_overlapping_cells with the hash folded only into the cell of the
\* rectangle's top left corner (for C9)
update_overlapping_cells_first_cell(grid, r, h) ==
  LET idx == cell_idx(CDiv(r.x, CellSize), CDiv(r.y, CellSize))
  IN [i \in DOMAIN grid |-> IF i = idx THEN hash(grid[i], h) ELSE grid[i]]

\* update_overlapping_cells with the hash folded only into the cells of
\* the rectangle's leftmost column (for C12)
update_overlapping_cells_left_column(grid, r, h) ==
  LET x1 == CDiv(r.x, CellSize)
      y1 == CDiv(r.y, CellSize)
      y2 == CDiv(r.y + r.height, CellSize)
  IN [i \in DOMAIN grid |->
        IF \E y \in y1..y2 : cell_idx(x1, y) = i THEN hash(grid[i], h) ELSE grid[i]]

\* update_overlapping_cells: the hash h is folded into every cell the
\* rectangle reaches, once per visit of the cell's index
update_overlapping_cells(grid, r, h) ==
  LET x1 == CDiv(r.x, CellSize)
      y1 == CDiv(r.y, CellSize)
      x2 == CDiv(r.x + r.width, CellSize)
      y2 == CDiv(r.y + r.height, CellSize)
      visits(i) == Cardinality({c \in (x1..x2) \X (y1..y2) : cell_idx(c[1], c[2]) = i})
  IN [i \in DOMAIN grid |-> HashTimes(grid[i], h, visits(i))]

\* the first loop of rencache_end_frame from record i on: cr is the running
\* clip, grid the current grid, refs the render_ref_count of every ref
\* the hash pass without its test for an empty clipped rectangle (for C23)
RECURSIVE hash_pass_folds_empty(_, _, _, _, _)
hash_pass_folds_empty(cmds, i, cr, grid, refs) ==
  IF i > Len(cmds) THEN [grid |-> grid, refs |-> refs]
  ELSE LET cmd == cmds[i]
           cr1 == IF cmd.type = SET_CLIP THEN cmd.rect ELSE cr
           refs1 == IF cmd.type = DRAW_CANVAS
                    THEN [refs EXCEPT ![cmd.canvas_ref] = @ - 1]
                    ELSE refs
           r == intersect_rects(cmd.rect, cr1)
       IN hash_pass_folds_empty(cmds, i + 1, cr1,
                                update_overlapping_cells(grid, r, CommandHash(cmd)),
                                refs1)

RECURSIVE hash_pass(_, _, _, _, _)
hash_pass(cmds, i, cr, grid, refs) ==
  IF i > Len(cmds) THEN [grid |-> grid, refs |-> refs]
  ELSE LET cmd == cmds[i]
           cr1 == IF cmd.type = SET_CLIP THEN cmd.rect ELSE cr
           refs1 == IF cmd.type = DRAW_CANVAS
                    THEN [refs EXCEPT ![cmd.canvas_ref] = @ - 1]
                    ELSE refs
           r == intersect_rects(cmd.rect, cr1)
       IN IF r.width = 0 \/ r.height = 0
          THEN hash_pass(cmds, i + 1, cr1, grid, refs1)
          ELSE hash_pass(cmds, i + 1, cr1,
                         update_overlapping_cells(grid, r, CommandHash(cmd)), refs1)

\* push_rect: merge into the last stored rectangle that overlaps, else append
RECURSIVE push_rect_from(_, _, _)
push_rect_from(rect_buf, r, i) ==
  IF i < 1 THEN Append(rect_buf, r)
  ELSE IF rects_overlap(rect_buf[i], r)
       THEN [rect_buf EXCEPT ![i] = merge_rects(rect_buf[i], r)]
       ELSE push_rect_from(rect_buf, r, i - 1)
\* push_rect that stores every rect as a new one (for C39)
push_rect_never_merges(rect_buf, r) == Append(rect_buf, r)

push_rect(rect_buf, r) == push_rect_from(rect_buf, r, Len(rect_buf))

\* the cell scan of rencache_end_frame, row by row, from cell number k of
\* the max_x * max_y scanned cells: changed cells go to rect_buf and the
\* previous grid is reset to HASH_INITIAL
RECURSIVE diff_scan(_, _, _, _, _, _)
diff_scan(k, max_x, max_y, cur, prev, rect_buf) ==
  IF k >= max_x * max_y THEN [prev |-> prev, rect_buf |-> rect_buf]
  ELSE LET x == k % max_x
           y == k \div max_x
           idx == cell_idx(x, y)
           rb == IF cur[idx] # prev[idx] THEN push_rect(rect_buf, Rect(x, y, 1, 1))
                 ELSE rect_buf
       IN diff_scan(k + 1, max_x, max_y, cur, [prev EXCEPT ![idx] = HASH_INITIAL], rb)

\* the expansion of the merged rectangles from cells to pixels
expand_rects(rect_buf, screen_rect) ==
  [i \in 1..Len(rect_buf) |->
     intersect_rects(Rect(rect_buf[i].x * CellSize, rect_buf[i].y * CellSize,
                          rect_buf[i].width * CellSize, rect_buf[i].height * CellSize),
                     screen_rect)]

\* one record of the redraw switch, on the surface, for the dirty
\* rectangle r; canvases gives the surface of every canvas ref
replay_command(surf, cmd, r, canvases) ==
  CASE cmd.type = SET_CLIP -> ren_set_clip_rect(surf, intersect_rects(cmd.rect, r))
    [] cmd.type = DRAW_RECT -> ren_draw_rect(surf, cmd.rect, cmd.color)
    [] cmd.type = DRAW_TEXT ->
         ren_draw_text(surf, cmd.fonts, cmd.text, cmd.text_x, cmd.rect.y, cmd.color)
    [] cmd.type = DRAW_POLY -> ren_draw_poly(surf, cmd.points, cmd.color)
    [] cmd.type = DRAW_CANVAS ->
         ren_draw_canvas(surf, canvases[cmd.canvas_ref], cmd.rect.x, cmd.rect.y)

RECURSIVE replay_from(_, _, _, _, _)
replay_from(surf, cmds, i, r, canvases) ==
  IF i > Len(cmds) THEN surf
  ELSE replay_from(replay_command(surf, cmds[i], r, canvases), cmds, i + 1, r, canvases)

\* the clip rect cr the first loop of rencache_end_frame holds after the
\* records cmds[i..]: the rect of the last SET_CLIP, the screen rect it starts
\* from when there is none
RECURSIVE hash_pass_clip(_, _, _)
hash_pass_clip(cmds, i, cr) ==
  IF i > Len(cmds) THEN cr
  ELSE hash_pass_clip(cmds, i + 1, IF cmds[i].type = SET_CLIP THEN cmds[i].rect ELSE cr)

\* the redraw loop over the dirty rectangles from rectangle j on
RECURSIVE redraw_from(_, _, _, _, _)
redraw_from(surf, rects, j, cmds, canvases) ==
  IF j > Len(rects) THEN surf
  ELSE redraw_from(
         replay_from(ren_set_clip_rect(surf, rects[j]), cmds, 1, rects[j], canvases),
         rects, j + 1, cmds, canvases)

\* ren_font_group_set_tab_size: heap holds the RenFont objects by address
\* and fonts is a group of addresses
ren_font_group_set_tab_size(heap, fonts, n) ==
  [a \in DOMAIN heap |->
     IF \E j \in DOMAIN fonts : fonts[j] = a
     THEN [heap[a] EXCEPT !.tab_advance = heap[a].space_advance * n]
     ELSE heap[a]]

\* the address in the heap of the fonts a record's group names, those that
\* are loaded
HeapIndex(f) == CASE f = "font1" -> 1 [] f = "font2" -> 2 [] OTHER -> 0
HeapGroup(heap, fonts) ==
  SelectSeq([i \in DOMAIN fonts |-> HeapIndex(fonts[i])],
            LAMBDA a : a \in DOMAIN heap)

\* what the redraw does to the fonts: for every DRAW_TEXT record replayed,
\* ren_font_group_set_tab_size with the tab size stored in the record;
\* nothing is replayed when no rect is to be redrawn
RECURSIVE replay_tab_sizes_from(_, _, _)
replay_tab_sizes_from(heap, cmds, i) ==
  IF i > Len(cmds) THEN heap
  ELSE replay_tab_sizes_from(
         IF cmds[i].type = DRAW_TEXT
         THEN ren_font_group_set_tab_size(heap, HeapGroup(heap, cmds[i].fonts),
                                          cmds[i].tab_size)
         ELSE heap,
         cmds, i + 1)
replay_tab_sizes(heap, rects, cmds) ==
  IF Len(rects) = 0 THEN heap ELSE replay_tab_sizes_from(heap, cmds, 1)

\* rencache_end_frame with the write index left where it is (for C15)
rencache_end_frame_keeps_idx(rc, surf, refs, canvases) ==
  LET hp == hash_pass(rc.command_buf, 1, rc.screen_rect, GridOf(rc, rc.cells), refs)
      max_x == CDiv(rc.screen_rect.width, CellSize) + 1
      max_y == CDiv(rc.screen_rect.height, CellSize) + 1
      ds == diff_scan(0, max_x, max_y, hp.grid, GridOf(rc, rc.cells_prev), <<>>)
      rects == expand_rects(ds.rect_buf, rc.screen_rect)
      surf1 == redraw_from(surf, rects, 1, rc.command_buf, canvases)
      rc1 == SetGrid(SetGrid(rc, rc.cells, hp.grid), rc.cells_prev, ds.prev)
  IN [rc |-> [rc1 EXCEPT !.rect_buf = rects,
                         !.cells = rc.cells_prev,
                         !.cells_prev = rc.cells,
                         !.command_buf = <<>>],
      surf |-> surf1,
      refs |-> hp.refs,
      presented |-> IF Len(rects) > 0 /\ rc.window THEN rects ELSE <<>>]

\* rencache_end_frame with the two grid pointers left as they are (for C14)
rencache_end_frame_no_swap(rc, surf, refs, canvases) ==
  LET hp == hash_pass(rc.command_buf, 1, rc.screen_rect, GridOf(rc, rc.cells), refs)
      max_x == CDiv(rc.screen_rect.width, CellSize) + 1
      max_y == CDiv(rc.screen_rect.height, CellSize) + 1
      ds == diff_scan(0, max_x, max_y, hp.grid, GridOf(rc, rc.cells_prev), <<>>)
      rects == expand_rects(ds.rect_buf, rc.screen_rect)
      surf1 == redraw_from(surf, rects, 1, rc.command_buf, canvases)
      rc1 == SetGrid(SetGrid(rc, rc.cells, hp.grid), rc.cells_prev, ds.prev)
  IN [rc |-> [rc1 EXCEPT !.rect_buf = rects,
                         !.command_buf_idx = 0,
                         !.command_buf = <<>>],
      surf |-> surf1,
      refs |-> hp.refs,
      presented |-> IF Len(rects) > 0 /\ rc.window THEN rects ELSE <<>>]

\* rencache_end_frame (with the debug overlay off): the cache, the surface
\* and the ref counts it leaves, and the rectangles it hands to
\* rencache_update_rects (none when the call is not made)
rencache_end_frame(rc, surf, refs, canvases) ==
  LET hp == hash_pass(rc.command_buf, 1, rc.screen_rect, GridOf(rc, rc.cells), refs)
      max_x == CDiv(rc.screen_rect.width, CellSize) + 1
      max_y == CDiv(rc.screen_rect.height, CellSize) + 1
      ds == diff_scan(0, max_x, max_y, hp.grid, GridOf(rc, rc.cells_prev), <<>>)
      rects == expand_rects(ds.rect_buf, rc.screen_rect)
      surf1 == redraw_from(surf, rects, 1, rc.command_buf, canvases)
      rc1 == SetGrid(SetGrid(rc, rc.cells, hp.grid), rc.cells_prev, ds.prev)
  IN [rc |-> [rc1 EXCEPT !.rect_buf = rects,
                         !.cells = rc.cells_prev,
                         !.cells_prev = rc.cells,
                         !.command_buf_idx = 0,
                         !.command_buf = <<>>],
      surf |-> surf1,
      refs |-> hp.refs,
      presented |-> IF Len(rects) > 0 /\ rc.window THEN rects ELSE <<>>]

(***************************************************************************)
(* The recording functions of rencache.c.  Each gives the cache it leaves, *)
(* whether a record was appended, and the record.                          *)
(***************************************************************************)
Pushed(rc, cmd) == [rc |-> rc, pushed |-> TRUE, cmd |-> cmd]
Dropped(rc, cmd) == [rc |-> rc, pushed |-> FALSE, cmd |-> cmd]

rencache_set_clip_rect(rc, rect, alloc_ok) ==
  LET cmd == [type |-> SET_CLIP, size |-> AlignedSize(SizeofSetClip),
              rect |-> intersect_rects(rect, rc.screen_rect)]
      res == push_command(rc, cmd, alloc_ok)
  IN IF res.pushed
     THEN Pushed([res.rc EXCEPT !.last_clip_rect = cmd.rect], cmd)
     ELSE Dropped(res.rc, cmd)

rencache_draw_rect(rc, rect, color, alloc_ok) ==
  LET cmd == [type |-> DRAW_RECT, size |-> AlignedSize(SizeofDrawRect),
              rect |-> rect, color |-> color]
      res == push_command(rc, cmd, alloc_ok)
  IN IF rect.width = 0 \/ rect.height = 0 \/ ~rects_overlap(rc.last_clip_rect, rect)
     THEN Dropped(rc, cmd)
     ELSE IF res.pushed THEN Pushed(res.rc, cmd) ELSE Dropped(res.rc, cmd)

\* rencache_draw_text, tab_size being what ren_font_group_get_tab_size
\* gives for the group when the record is written
rencache_draw_text_tab(rc, fonts, tab_size, text, x, y, color, alloc_ok) ==
  LET width == ren_font_group_get_width(fonts, text)
      rect == Rect(x, y, width, ren_font_group_get_height(fonts))
      cmd == [type |-> DRAW_TEXT,
              size |-> AlignedSize(SizeofDrawText + Len(text) + 1),
              rect |-> rect, color |-> color, fonts |-> fonts, text_x |-> x,
              len |-> Len(text), tab_size |-> tab_size,
              text |-> text]
      res == push_command(rc, cmd, alloc_ok)
  IN IF ~rects_overlap(rc.last_clip_rect, rect)
     THEN Dropped(rc, cmd)
     ELSE IF res.pushed THEN Pushed(res.rc, cmd) ELSE Dropped(res.rc, cmd)

rencache_draw_text(rc, fonts, text, x, y, color, alloc_ok) ==
  rencache_draw_text_tab(rc, fonts, ren_font_group_get_tab_size(fonts), text, x, y,
                         color, alloc_ok)

rencache_draw_poly(rc, points, color, alloc_ok) ==
  LET rect == ren_poly_cbox(points)
      npoints == Len(points)
      cmd == [type |-> DRAW_POLY,
              size |-> AlignedSize(SizeofDrawBezier + npoints + npoints * SizeofRenPoint),
              rect |-> rect, color |-> color, npoints |-> npoints, points |-> points]
      res == push_command(rc, cmd, alloc_ok)
  IN IF ~rects_overlap(rc.last_clip_rect, rect)
     THEN Dropped(rc, cmd)
     ELSE IF res.pushed THEN Pushed(res.rc, cmd) ELSE Dropped(res.rc, cmd)

\* rencache_draw_canvas; the caller adds one to the ref's render_ref_count
\* when a record was appended
rencache_draw_canvas(rc, rect, canvas_ref, version, alloc_ok) ==
  LET cmd == [type |-> DRAW_CANVAS, size |-> AlignedSize(SizeofDrawCanvas),
              rect |-> rect, version |-> version, canvas_ref |-> canvas_ref]
      res == push_command(rc, cmd, alloc_ok)
  IN IF rect.width = 0 \/ rect.height = 0 \/ ~rects_overlap(rc.last_clip_rect, rect)
     THEN Dropped(rc, cmd)
     ELSE IF res.pushed THEN Pushed(res.rc, cmd) ELSE Dropped(res.rc, cmd)

(***************************************************************************)
(* The state.                                                              *)
(***************************************************************************)
\* the windows (RenWindow, each with its cache) and the canvases of
\* canvas.c (each a RenCache over its own surface)
Windows == {"w1", "w2"}
Canvases == {"c1", "c2"}
Targets == Windows \cup Canvases
NoTarget == "null"

VARIABLES
  target_window,        \* the window ren_set_target_window last set, or NoTarget
  cache,                \* the RenCache of every window and canvas
  surface,              \* the surface of every window and canvas
  snaps,                \* the canvas refs, each with the fields of the handle
                        \* made by renderer.to_canvas that it belongs to
  RENDERER_FONT_REF,    \* keys of the registry table of fonts in use
  RENDERER_CANVAS_REF,  \* keys of the registry table of canvas refs in use
  presented,            \* per window, the rectangles of the update_rects call
                        \* of its last end_frame (none if it made no call)
  aborted,              \* "no", or the call that ended the process
  budget,               \* frames and records the run may still use
  hist,                 \* per target, what its frames did so far
  initial_window,       \* the static flag of rencache_update_rects
  show_calls,           \* per window, the SDL_ShowWindow calls made for it
  font_heap,            \* the RenFont objects loaded, by address
  font_ret,             \* the last call made on fonts and what it returned
  api_ret,              \* what the last call that returns bytes or an error
                        \* returned, with the arguments of the call
  scan,                 \* the diff scan of one end_frame taken cell by cell:
                        \* the two grids, the rect buffer and the position
  renwin                \* the RenWindow objects, the userdata handles that
                        \* point at them and the static persistant_window

vars == <<target_window, cache, surface, snaps, RENDERER_FONT_REF,
          RENDERER_CANVAS_REF, presented, aborted, budget, hist,
          initial_window, show_calls, font_heap, font_ret, api_ret, scan, renwin>>

\* the variables of the presenting of windows, and those the calls of the
\* renderer and canvas modules that record or replay leave alone
show_vars == <<initial_window, show_calls>>

\* the variables of the fonts, which the calls that record, replay or
\* present leave alone
font_vars == <<font_heap, font_ret>>

\* the variables of the scan taken by itself and of the window handles
aux_vars == <<scan, renwin>>

(***************************************************************************)
(* The inputs the calls are made with.                                     *)
(***************************************************************************)
Red == Color(255, 0, 0, 255)
Blue == Color(0, 0, 255, 255)
GreenHalf == Color(0, 255, 0, 128)
Black == Color(0, 0, 0, 255)

WindowWidth == 4
WindowHeight == 2
CanvasWidth == 2
CanvasHeight == 2

ClipRects == {Rect(0, 0, 1, 2), Rect(9, 9, 1, 1)}
DrawRects == {Rect(0, 0, 1, 1), Rect(1, 0, 2, 1), Rect(0, 0, 0, 1), Rect(9, 0, 1, 1)}
RectColors == {Red, GreenHalf}
\* a text of one byte, "a", and where it is drawn
Texts == {<<97>>}
TextAt == {<<2, 1>>, <<0, 0>>}
\* the polygon: the rectangle with corners (2,0) and (4,1), as four
\* two-coordinate sub-tables, every point tagged POLY_NORMAL
PolyPoints == <<[x |-> 2, y |-> 0, tag |-> POLY_NORMAL],
                [x |-> 4, y |-> 0, tag |-> POLY_NORMAL],
                [x |-> 4, y |-> 1, tag |-> POLY_NORMAL],
                [x |-> 2, y |-> 1, tag |-> POLY_NORMAL]>>
\* where a canvas is drawn, and the rectangle to_canvas copies
CanvasAt == {<<3, 1>>, <<0, 0>>}
SnapRects == {Rect(0, 0, 1, 1)}
\* a text as long as the buffer's first allocation, so that its record
\* never fits without growing the buffer, drawn on the line just below the
\* window's last one
LongText == [i \in 1..CMD_BUF_INIT_SIZE |-> 97]
LongTextAt == <<0, WindowHeight>>
\* the sizes a window is resized to: the size it is created with, a
\* smaller one, and one as wide as the whole grid that reaches into the
\* second row of cells
WindowSizes == {<<WindowWidth, WindowHeight>>, <<CanvasWidth, CanvasHeight>>,
                <<CellsX * CellSize, CellSize + 1>>}

(***************************************************************************)
(* The initial state: two windows just created and two canvases just       *)
(* made by canvas.new, c1 black and c2 blue.                               *)
(***************************************************************************)
PixelOf(color) == <<color.r, color.g, color.b, color.a>>

\* canvas.new: the surface filled with the colour, a cache over it, and
\* the rencache_begin_frame that canvas.new ends with
f_new(w, h, color) ==
  LET surf == NewSurface(w, h, PixelOf(color))
  IN [surf |-> surf, rc |-> rencache_begin_frame(rencache_init(FALSE), surf)]

\* resized tells whether the rencache_begin_frame of the target's open (or
\* last) frame found a surface size other than the cached screen_rect
NewHist(surf, resized) ==
  [frames |-> 0, cmds |-> <<>>, prev_cmds |-> <<>>, before |-> surf.px,
   calls |-> <<>>, start |-> surf.px, resized |-> resized]

\* no scan taken by itself, and no window made through the renwindow module
NoScan == [phase |-> "none"]
NoRenWindows == [windows |-> <<>>, handles |-> <<>>, persistant_window |-> 0]

\* fill gives the colour each canvas is made with
InitFilled(b, fill) ==
  /\ target_window = NoTarget
  /\ surface = [t \in Targets |->
                  IF t \in Windows
                  THEN NewSurface(WindowWidth, WindowHeight, PixelOf(Black))
                  ELSE f_new(CanvasWidth, CanvasHeight, fill[t]).surf]
  /\ cache = [t \in Targets |->
                IF t \in Windows THEN rencache_init(TRUE)
                ELSE f_new(CanvasWidth, CanvasHeight, fill[t]).rc]
  /\ snaps = <<>>
  /\ RENDERER_FONT_REF = {}
  /\ RENDERER_CANVAS_REF = {}
  /\ presented = [w \in Windows |-> <<>>]
  /\ aborted = "no"
  /\ budget = b
  /\ hist = [t \in Targets |-> NewHist(surface[t], t \in Canvases)]
  /\ initial_window = TRUE
  /\ show_calls = [w \in Windows |-> 0]
  /\ font_heap = <<>>
  /\ font_ret = [op |-> "none"]
  /\ api_ret = [op |-> "none"]
  /\ renwin = NoRenWindows

InitWith(b) ==
  /\ InitFilled(b, [c \in Canvases |-> IF c = "c1" THEN Black ELSE Blue])
  /\ scan = NoScan

Init == InitWith([frames |-> MaxFrames, cmds |-> MaxCmds])
InitC == InitWith([frames |-> MaxCFrames, cmds |-> MaxCCmds])
InitW == InitWith([frames |-> MaxWFrames, cmds |-> MaxWCmds])
InitR == InitWith([frames |-> MaxRFrames, cmds |-> MaxRCmds])
InitG == InitWith([frames |-> MaxGFrames, cmds |-> MaxGCmds])
InitK == InitWith([frames |-> MaxKFrames, cmds |-> MaxKCmds])

(***************************************************************************)
(* Helpers of the actions.                                                 *)
(***************************************************************************)
Running == aborted = "no"

\* the process is ended by the named call; nothing else changes
Abort(call) ==
  /\ aborted' = call
  /\ UNCHANGED <<target_window, cache, surface, snaps, RENDERER_FONT_REF,
                 RENDERER_CANVAS_REF, presented, show_vars, font_vars, aux_vars, api_ret, budget, hist>>

\* the result res of a recording function is stored for target t
Store(t, res) ==
  /\ cache' = [cache EXCEPT ![t] = res.rc]
  /\ hist' = IF res.pushed
             THEN [hist EXCEPT ![t].calls = Append(@, [kind |-> "record", cmd |-> res.cmd])]
             ELSE hist
  /\ budget' = IF res.pushed THEN [budget EXCEPT !.cmds = @ - 1] ELSE budget

\* a frame of target t ended with the result res of rencache_end_frame
EndHist(t, res) ==
  [hist EXCEPT ![t] = [frames |-> @.frames + 1, cmds |-> cache[t].command_buf,
                       prev_cmds |-> @.cmds, before |-> surface[t].px,
                       calls |-> <<>>, start |-> res.surf.px,
                       resized |-> t \in Windows /\ @.resized]]

RefCounts == [i \in DOMAIN snaps |-> snaps[i].render_ref_count]
RefSurfaces == [i \in DOMAIN snaps |-> snaps[i].surface]

\* the canvas handles, each named by the index of the ref it was made
\* with, and the ref that is a handle's USERDATA_CANVAS_REF user value:
\* the last one associated with it
Handles == {snaps[i].handle : i \in DOMAIN snaps}
CurrentRef(id) ==
  CHOOSE i \in DOMAIN snaps :
    /\ snaps[i].handle = id
    /\ \A j \in DOMAIN snaps : snaps[j].handle = id => j <= i

(***************************************************************************)
(* The renderer module (src/src/api/renderer.c).  The calls that use the   *)
(* target window without checking it reach through a null RenWindow when   *)
(* no frame is open; what that does is noted at each call.                 *)
(***************************************************************************)
Recording == target_window # NoTarget

\* rencache_update_rects as rencache_end_frame calls it for window w, with
\* the rectangles it found (not called when there are none): the first
\* call of the process shows its window
rencache_update_rects(w, rects) ==
  /\ IF Len(rects) > 0 /\ initial_window
     THEN /\ show_calls' = [show_calls EXCEPT ![w] = @ + 1]
          /\ initial_window' = FALSE
     ELSE UNCHANGED show_vars

\* renderer.begin_frame with no assertion (for C1)
f_begin_frame_unchecked(w) ==
  /\ Running
  /\ budget.frames > 0
  /\ target_window' = w
  /\ cache' = [cache EXCEPT ![w] = rencache_begin_frame(@, surface[w])]
  /\ budget' = [budget EXCEPT !.frames = @ - 1]
  /\ hist' = [hist EXCEPT ![w].calls = <<>>, ![w].start = surface[w].px,
                          ![w].resized = SizeChanged(cache[w], surface[w])]
  /\ UNCHANGED <<surface, snaps, RENDERER_FONT_REF, RENDERER_CANVAS_REF,
                 presented, show_vars, font_vars, aux_vars, api_ret, aborted>>

\* renderer.begin_frame(w): asserts that no target is set
f_begin_frame(w) ==
  /\ Running
  /\ \/ /\ Recording
        /\ Abort("f_begin_frame")
     \/ /\ ~Recording
        /\ budget.frames > 0
        /\ target_window' = w
        /\ cache' = [cache EXCEPT ![w] = rencache_begin_frame(@, surface[w])]
        /\ budget' = [budget EXCEPT !.frames = @ - 1]
        /\ hist' = [hist EXCEPT ![w].calls = <<>>, ![w].start = surface[w].px,
                                ![w].resized = SizeChanged(cache[w], surface[w])]
        /\ UNCHANGED <<surface, snaps, RENDERER_FONT_REF, RENDERER_CANVAS_REF,
                       presented, show_vars, font_vars, aux_vars, api_ret, aborted>>

\* renderer.end_frame with no ren_set_target_window(NULL) (for C2)
f_end_frame_keeps_target ==
  /\ Running
  /\ \/ /\ ~Recording
        /\ Abort("f_end_frame")
     \/ /\ Recording
        /\ LET w == target_window
               res == rencache_end_frame(cache[w], surface[w], RefCounts, RefSurfaces)
           IN /\ cache' = [cache EXCEPT ![w] = res.rc]
              /\ surface' = [surface EXCEPT ![w] = res.surf]
              /\ snaps' = [i \in DOMAIN snaps |->
                             [snaps[i] EXCEPT !.render_ref_count = res.refs[i]]]
              /\ presented' = [presented EXCEPT ![w] = res.presented]
              /\ rencache_update_rects(w, res.presented)
              /\ hist' = EndHist(w, res)
        /\ target_window' = target_window
        /\ RENDERER_FONT_REF' = {}
        /\ RENDERER_CANVAS_REF' = {}
        /\ UNCHANGED <<aborted, budget, font_vars, aux_vars, api_ret>>

\* renderer.end_frame(): asserts that a target is set, ends its frame,
\* clears the target and both registry tables
f_end_frame ==
  /\ Running
  /\ \/ /\ ~Recording
        /\ Abort("f_end_frame")
     \/ /\ Recording
        /\ LET w == target_window
               res == rencache_end_frame(cache[w], surface[w], RefCounts, RefSurfaces)
           IN /\ cache' = [cache EXCEPT ![w] = res.rc]
              /\ surface' = [surface EXCEPT ![w] = res.surf]
              /\ snaps' = [i \in DOMAIN snaps |->
                             [snaps[i] EXCEPT !.render_ref_count = res.refs[i]]]
              /\ presented' = [presented EXCEPT ![w] = res.presented]
              /\ rencache_update_rects(w, res.presented)
              /\ hist' = EndHist(w, res)
              /\ font_heap' = replay_tab_sizes(font_heap, res.rc.rect_buf,
                                               cache[w].command_buf)
        /\ target_window' = NoTarget
        /\ RENDERER_FONT_REF' = {}
        /\ RENDERER_CANVAS_REF' = {}
        /\ UNCHANGED <<aborted, budget, font_ret, aux_vars, api_ret>>

\* renderer.set_clip_rect(x, y, w, h).  With no target the cache pointer is
\* null-based: push_command returns at its !ren_cache test when the cache
\* is the first member of RenWindow, and reads resize_issue through the
\* bad pointer otherwise.
f_set_clip_rect(rect, alloc_ok) ==
  /\ Running
  /\ \/ /\ ~Recording
        /\ \/ Abort("f_set_clip_rect")
           \/ UNCHANGED vars
     \/ /\ Recording
        /\ budget.cmds > 0
        /\ alloc_ok \/ NeedsGrow(cache[target_window], [size |-> AlignedSize(SizeofSetClip)])
        /\ Store(target_window,
                 rencache_set_clip_rect(cache[target_window], rect, alloc_ok))
        /\ UNCHANGED <<target_window, surface, snaps, RENDERER_FONT_REF,
                       RENDERER_CANVAS_REF, presented, show_vars, font_vars, aux_vars, api_ret, aborted>>

\* renderer.draw_rect(x, y, w, h, color).  With no target,
\* rencache_draw_rect returns at the zero-size test before it touches the
\* cache, and reads last_clip_rect through the null-based pointer otherwise.
f_draw_rect(rect, color, alloc_ok) ==
  /\ Running
  /\ \/ /\ ~Recording
        /\ IF rect.width = 0 \/ rect.height = 0
           THEN UNCHANGED vars
           ELSE Abort("f_draw_rect")
     \/ /\ Recording
        /\ budget.cmds > 0
        /\ alloc_ok \/ NeedsGrow(cache[target_window], [size |-> AlignedSize(SizeofDrawRect)])
        /\ Store(target_window,
                 rencache_draw_rect(cache[target_window], rect, color, alloc_ok))
        /\ UNCHANGED <<target_window, surface, snaps, RENDERER_FONT_REF,
                       RENDERER_CANVAS_REF, presented, show_vars, font_vars, aux_vars, api_ret, aborted>>

\* renderer.draw_text(font, text, x, y, color): the font goes into the
\* registry table, then the text is recorded.  With no target,
\* rencache_draw_text reads last_clip_rect through the null-based pointer.
f_draw_text(font, text, x, y, color, alloc_ok) ==
  /\ Running
  /\ \/ /\ ~Recording
        /\ Abort("f_draw_text")
     \/ /\ Recording
        /\ budget.cmds > 0
        /\ alloc_ok \/ NeedsGrow(cache[target_window],
                                 [size |-> AlignedSize(SizeofDrawText + Len(text) + 1)])
        /\ RENDERER_FONT_REF' = RENDERER_FONT_REF \cup {font}
        /\ Store(target_window,
                 rencache_draw_text(cache[target_window], font_retrieve(font), text,
                                    x, y, color, alloc_ok))
        /\ UNCHANGED <<target_window, surface, snaps, RENDERER_CANVAS_REF,
                       presented, show_vars, font_vars, aux_vars, api_ret, aborted>>

\* renderer.draw_poly(points, color): asserts that a target is set
f_draw_poly(points, color, alloc_ok) ==
  /\ Running
  /\ \/ /\ ~Recording
        /\ Abort("f_draw_poly")
     \/ /\ Recording
        /\ budget.cmds > 0
        /\ alloc_ok \/ NeedsGrow(cache[target_window],
               [size |-> AlignedSize(SizeofDrawBezier + Len(points)
                                       + Len(points) * SizeofRenPoint)])
        /\ Store(target_window,
                 rencache_draw_poly(cache[target_window], points, color, alloc_ok))
        /\ UNCHANGED <<target_window, surface, snaps, RENDERER_FONT_REF,
                       RENDERER_CANVAS_REF, presented, show_vars, font_vars, aux_vars, api_ret, aborted>>

\* renderer.draw_canvas that records the draw and does not pin the ref
\* (for C20)
f_draw_canvas_no_pin(id, x, y, alloc_ok) ==
  /\ Running
  /\ id \in Handles
  /\ LET ref == CurrentRef(id)
         rect == Rect(x, y, snaps[ref].w, snaps[ref].h)
     IN \/ /\ ~Recording
           /\ IF rect.width = 0 \/ rect.height = 0
              THEN /\ RENDERER_CANVAS_REF' = RENDERER_CANVAS_REF \cup {ref}
                   /\ UNCHANGED <<target_window, cache, surface, snaps,
                                  RENDERER_FONT_REF, presented, show_vars, font_vars, aux_vars, api_ret, aborted, budget, hist>>
              ELSE Abort("f_draw_canvas")
        \/ /\ Recording
           /\ budget.cmds > 0
           /\ alloc_ok \/ NeedsGrow(cache[target_window],
                                    [size |-> AlignedSize(SizeofDrawCanvas)])
           /\ RENDERER_CANVAS_REF' = RENDERER_CANVAS_REF \cup {ref}
           /\ LET res == rencache_draw_canvas(cache[target_window], rect, ref,
                                              snaps[ref].version, alloc_ok)
              IN /\ Store(target_window, res)
                 /\ snaps' = snaps
           /\ UNCHANGED <<target_window, surface, RENDERER_FONT_REF,
                          presented, show_vars, font_vars, aux_vars, api_ret, aborted>>

\* renderer.draw_canvas that pins the ref whether or not a record was
\* appended (for C19)
f_draw_canvas_pins_always(id, x, y, alloc_ok) ==
  /\ Running
  /\ id \in Handles
  /\ LET ref == CurrentRef(id)
         rect == Rect(x, y, snaps[ref].w, snaps[ref].h)
     IN \/ /\ ~Recording
           /\ IF rect.width = 0 \/ rect.height = 0
              THEN /\ RENDERER_CANVAS_REF' = RENDERER_CANVAS_REF \cup {ref}
                   /\ UNCHANGED <<target_window, cache, surface, snaps,
                                  RENDERER_FONT_REF, presented, show_vars, font_vars, aux_vars, api_ret, aborted, budget, hist>>
              ELSE Abort("f_draw_canvas")
        \/ /\ Recording
           /\ budget.cmds > 0
           /\ alloc_ok \/ NeedsGrow(cache[target_window],
                                    [size |-> AlignedSize(SizeofDrawCanvas)])
           /\ RENDERER_CANVAS_REF' = RENDERER_CANVAS_REF \cup {ref}
           /\ LET res == rencache_draw_canvas(cache[target_window], rect, ref,
                                              snaps[ref].version, alloc_ok)
              IN /\ Store(target_window, res)
                 /\ snaps' = [snaps EXCEPT ![ref].render_ref_count = @ + 1]
           /\ UNCHANGED <<target_window, surface, RENDERER_FONT_REF,
                          presented, show_vars, font_vars, aux_vars, api_ret, aborted>>

\* renderer.draw_canvas(canvas, x, y): the ref goes into the registry
\* table, then the draw is recorded and the ref pinned.  With no target,
\* rencache_draw_canvas returns at the zero-size test, and reads
\* last_clip_rect through the null pointer otherwise.
f_draw_canvas(id, x, y, alloc_ok) ==
  /\ Running
  /\ id \in Handles
  /\ LET ref == CurrentRef(id)
         rect == Rect(x, y, snaps[ref].w, snaps[ref].h)
     IN \/ /\ ~Recording
           /\ IF rect.width = 0 \/ rect.height = 0
              THEN /\ RENDERER_CANVAS_REF' = RENDERER_CANVAS_REF \cup {ref}
                   /\ UNCHANGED <<target_window, cache, surface, snaps,
                                  RENDERER_FONT_REF, presented, show_vars, font_vars, aux_vars, api_ret, aborted, budget, hist>>
              ELSE Abort("f_draw_canvas")
        \/ /\ Recording
           /\ budget.cmds > 0
           /\ alloc_ok \/ NeedsGrow(cache[target_window],
                                    [size |-> AlignedSize(SizeofDrawCanvas)])
           /\ RENDERER_CANVAS_REF' = RENDERER_CANVAS_REF \cup {ref}
           /\ LET res == rencache_draw_canvas(cache[target_window], rect, ref,
                                              snaps[ref].version, alloc_ok)
              IN /\ Store(target_window, res)
                 /\ snaps' = IF res.pushed
                             THEN [snaps EXCEPT ![ref].render_ref_count = @ + 1]
                             ELSE snaps
           /\ UNCHANGED <<target_window, surface, RENDERER_FONT_REF,
                          presented, show_vars, font_vars, aux_vars, api_ret, aborted>>

\* renderer.to_canvas(x, y, w, h): a new canvas holding a copy of the
\* rectangle of the target window's surface, version 0, ref count 0.  With
\* no target, renwin_get_surface reads the window through a null pointer.
f_to_canvas(rect) ==
  /\ Running
  /\ \/ /\ ~Recording
        /\ Abort("f_to_canvas")
     \/ /\ Recording
        /\ Len(snaps) < MaxSnaps
        /\ LET src == surface[target_window]
               copy == [w |-> rect.width, h |-> rect.height,
                        clip |-> Rect(0, 0, rect.width, rect.height),
                        px |-> [p \in PixelsOf(rect.width, rect.height) |->
                                  IF <<p[1] + rect.x, p[2] + rect.y>> \in DOMAIN src.px
                                  THEN src.px[<<p[1] + rect.x, p[2] + rect.y>>]
                                  ELSE <<0, 0, 0, 0>>]]
           IN snaps' = Append(snaps, [w |-> rect.width, h |-> rect.height,
                                      version |-> 0, render_ref_count |-> 0,
                                      surface |-> copy,
                                      handle |-> Len(snaps) + 1])
        /\ UNCHANGED <<target_window, cache, surface, RENDERER_FONT_REF,
                       RENDERER_CANVAS_REF, presented, show_vars, font_vars, aux_vars, api_ret, aborted, budget, hist>>

\* The mutating calls on a canvas handle are not among the sources
\* modelled here; canvas_detach, WritePixels and canvas_set_pixels follow
\* the COW rule and the description of set_pixels in the specification.
\* The refs once handle id is free to be written: when its current ref is
\* pinned, a duplicate of that ref (a copy of the surface, no pins,
\* version 0) is associated with the handle and the pinned ref is left as
\* it is.
canvas_detach(id) ==
  LET ref == CurrentRef(id)
  IN IF snaps[ref].render_ref_count > 0
     THEN Append(snaps, [snaps[ref] EXCEPT !.render_ref_count = 0, !.version = 0])
     ELSE snaps

\* the surface with the block rect overwritten by pixel, no blending
WritePixels(surf, rect, pixel) ==
  [surf EXCEPT !.px = [p \in DOMAIN surf.px |->
                         IF InRect(p, rect) THEN pixel ELSE surf.px[p]]]

\* canvas:set_pixels(bytes, x, y, w, h) on a handle, every pixel of bytes
\* being pixel: COW, then the block is overwritten and the version counted
canvas_set_pixels(id, rect, pixel) ==
  /\ Running
  /\ id \in Handles
  /\ budget.cmds > 0
  /\ LET refs == canvas_detach(id)
         ref == IF Len(refs) > Len(snaps) THEN Len(refs) ELSE CurrentRef(id)
     IN snaps' = [refs EXCEPT ![ref].surface = WritePixels(@, rect, pixel),
                              ![ref].version = @ + 1]
  /\ budget' = [budget EXCEPT !.cmds = @ - 1]
  /\ UNCHANGED <<target_window, cache, surface, RENDERER_FONT_REF,
                 RENDERER_CANVAS_REF, presented, show_vars, font_vars, aux_vars, api_ret, aborted, hist>>

\* The window w is resized between two frames: from then on
\* renwin_get_surface (SDL_GetWindowSurface) gives a surface of the new
\* size, taken here as cleared to black.
window_resized(w, width, height) ==
  /\ Running
  /\ ~Recording
  /\ <<width, height>> # ren_get_size(surface[w])
  /\ surface' = [surface EXCEPT ![w] = NewSurface(width, height, PixelOf(Black))]
  /\ UNCHANGED <<target_window, cache, snaps, RENDERER_FONT_REF,
                 RENDERER_CANVAS_REF, presented, show_vars, font_vars, aux_vars, api_ret, aborted, budget, hist>>

(***************************************************************************)
(* The canvas module (src/src/api/canvas.c).  A canvas is a RenCache over  *)
(* its own surface; canvas.new leaves it recording.                        *)
(***************************************************************************)
\* canvas:set_clip_rect(x, y, w, h)
canvas_f_set_clip_rect(c, rect, alloc_ok) ==
  /\ Running
  /\ budget.cmds > 0
  /\ alloc_ok \/ NeedsGrow(cache[c], [size |-> AlignedSize(SizeofSetClip)])
  /\ Store(c, rencache_set_clip_rect(cache[c], rect, alloc_ok))
  /\ UNCHANGED <<target_window, surface, snaps, RENDERER_FONT_REF,
                 RENDERER_CANVAS_REF, presented, show_vars, font_vars, aux_vars, api_ret, aborted>>

\* canvas:draw_rect(x, y, w, h, color)
canvas_f_draw_rect(c, rect, color, alloc_ok) ==
  /\ Running
  /\ budget.cmds > 0
  /\ alloc_ok \/ NeedsGrow(cache[c], [size |-> AlignedSize(SizeofDrawRect)])
  /\ Store(c, rencache_draw_rect(cache[c], rect, color, alloc_ok))
  /\ UNCHANGED <<target_window, surface, snaps, RENDERER_FONT_REF,
                 RENDERER_CANVAS_REF, presented, show_vars, font_vars, aux_vars, api_ret, aborted>>

\* canvas:draw_poly(points, color)
canvas_f_draw_poly(c, points, color, alloc_ok) ==
  /\ Running
  /\ budget.cmds > 0
  /\ alloc_ok \/ NeedsGrow(cache[c],
         [size |-> AlignedSize(SizeofDrawBezier + Len(points)
                                 + Len(points) * SizeofRenPoint)])
  /\ Store(c, rencache_draw_poly(cache[c], points, color, alloc_ok))
  /\ UNCHANGED <<target_window, surface, snaps, RENDERER_FONT_REF,
                 RENDERER_CANVAS_REF, presented, show_vars, font_vars, aux_vars, api_ret, aborted>>

\* canvas:draw_text(font, text, x, y, color): the value stored in the font
\* registry table is argument 1, the canvas
canvas_f_draw_text(c, font, text, x, y, color, alloc_ok) ==
  /\ Running
  /\ budget.cmds > 0
  /\ alloc_ok \/ NeedsGrow(cache[c],
                           [size |-> AlignedSize(SizeofDrawText + Len(text) + 1)])
  /\ RENDERER_FONT_REF' = RENDERER_FONT_REF \cup {c}
  /\ Store(c, rencache_draw_text(cache[c], font_retrieve(font), text, x, y, color,
                                 alloc_ok))
  /\ UNCHANGED <<target_window, surface, snaps, RENDERER_CANVAS_REF,
                 presented, show_vars, font_vars, aux_vars, api_ret, aborted>>

\* canvas:draw_canvas(src, x, y, blend): SDL_BlitSurface onto the canvas's
\* surface at the call; no record is appended
canvas_f_draw_canvas(c, src, x, y, blend) ==
  /\ Running
  /\ budget.cmds > 0
  /\ surface' = [surface EXCEPT ![c] = SDL_BlitSurface(@, surface[src], x, y, blend)]
  /\ hist' = [hist EXCEPT ![c].calls =
                Append(@, [kind |-> "blit", src |-> surface[src], x |-> x, y |-> y,
                           blend |-> blend, clip |-> surface[c].clip])]
  /\ budget' = [budget EXCEPT !.cmds = @ - 1]
  /\ UNCHANGED <<target_window, cache, snaps, RENDERER_FONT_REF,
                 RENDERER_CANVAS_REF, presented, show_vars, font_vars, aux_vars, api_ret, aborted>>

\* canvas:render(): rencache_end_frame on the canvas
canvas_f_render(c) ==
  /\ Running
  /\ budget.frames > 0
  /\ LET res == rencache_end_frame(cache[c], surface[c], RefCounts, RefSurfaces)
     IN /\ cache' = [cache EXCEPT ![c] = res.rc]
        /\ surface' = [surface EXCEPT ![c] = res.surf]
        /\ snaps' = [i \in DOMAIN snaps |->
                       [snaps[i] EXCEPT !.render_ref_count = res.refs[i]]]
        /\ hist' = EndHist(c, res)
        /\ font_heap' = replay_tab_sizes(font_heap, res.rc.rect_buf,
                                         cache[c].command_buf)
  /\ budget' = [budget EXCEPT !.frames = @ - 1]
  /\ UNCHANGED <<target_window, RENDERER_FONT_REF, RENDERER_CANVAS_REF,
                 presented, show_vars, font_ret, aux_vars, api_ret, aborted>>

\* the part of a surface inside rect, as a surface of rect's size
SubSurface(surf, rect) ==
  [w |-> rect.width, h |-> rect.height,
   clip |-> Rect(0, 0, rect.width, rect.height),
   px |-> [p \in PixelsOf(rect.width, rect.height) |->
             surf.px[<<rect.x + p[1], rect.y + p[2]>>]]]

\* the pixels of a surface as a string of bytes: R, G, B, A of each pixel,
\* row after row, the pitch being four times the width
SurfaceBytes(surf) ==
  [i \in 1..(4 * surf.w * surf.h) |->
     surf.px[<<((i - 1) \div 4) % surf.w, ((i - 1) \div 4) \div surf.w>>]
            [((i - 1) % 4) + 1]]

\* canvas:get_pixels(x, y, w, h): an RGBA32 surface of the rectangle's size
\* is created, the rectangle of the canvas's surface is blitted onto it with
\* the blend mode the canvas's surface has, and its bytes are the result
GotPixels(surf, rect) ==
  SurfaceBytes(SDL_BlitSurface(NewSurface(rect.width, rect.height, <<0, 0, 0, 0>>),
                               SubSurface(surf, rect), 0, 0, TRUE))

\* get_pixels returning the surface's own bytes (for C31)
RawPixels(surf, rect) == SurfaceBytes(SubSurface(surf, rect))

canvas_f_get_pixels(c, rect) ==
  /\ Running
  /\ budget.cmds > 0
  /\ api_ret' = [op |-> "get_pixels", canvas |-> c, rect |-> rect,
                 bytes |-> GotPixels(surface[c], rect), seen |-> surface[c].px]
  /\ budget' = [budget EXCEPT !.cmds = @ - 1]
  /\ UNCHANGED <<target_window, cache, surface, snaps, RENDERER_FONT_REF,
                 RENDERER_CANVAS_REF, presented, show_vars, font_vars, aux_vars, aborted,
                 hist>>

\* rencache_draw_pixels as set_pixels is described: the block rect is
\* overwritten with the pixels of bytes, row after row, no blending
rencache_draw_pixels(surf, rect, bytes) ==
  [surf EXCEPT !.px =
     [p \in DOMAIN surf.px |->
        IF InRect(p, rect)
        THEN LET at == 4 * ((p[2] - rect.y) * rect.width + (p[1] - rect.x))
             IN <<bytes[at + 1], bytes[at + 2], bytes[at + 3], bytes[at + 4]>>
        ELSE surf.px[p]]]

\* canvas:set_pixels(bytes, x, y, w, h), with as many bytes as the block has
canvas_f_set_pixels(c, bytes, rect) ==
  /\ Running
  /\ budget.cmds > 0
  /\ rect.width > 0
  /\ rect.height > 0
  /\ Len(bytes) = 4 * rect.width * rect.height
  /\ surface' = [surface EXCEPT ![c] = rencache_draw_pixels(@, rect, bytes)]
  /\ api_ret' = [op |-> "set_pixels", canvas |-> c, rect |-> rect,
                 bytes |-> bytes, seen |-> surface[c].px]
  /\ budget' = [budget EXCEPT !.cmds = @ - 1]
  /\ UNCHANGED <<target_window, cache, snaps, RENDERER_FONT_REF,
                 RENDERER_CANVAS_REF, presented, show_vars, font_vars, aux_vars, aborted,
                 hist>>

\* the argument at index i of a call's stack, and luaXL_checkcolor on it
NoArg == [none |-> TRUE]
ArgAt(L, i) == IF i \in DOMAIN L THEN L[i] ELSE NoArg
luaXL_checkcolor(L, idx, def) ==
  IF ArgAt(L, idx) = NoArg THEN Color(def, def, def, 255) ELSE ArgAt(L, idx)

\* canvas:clear(color): L is the stack of the call, the canvas and then the
\* colour if one is given; the rectangle of the whole surface is recorded
ClearColor(L) ==
  IF ArgAt(L, 2) = NoArg THEN Color(0, 0, 0, 0) ELSE luaXL_checkcolor(L, 6, 255)

\* clear taking the colour from the argument it is given at (for C32)
ClearColorAsked(L) ==
  IF ArgAt(L, 2) = NoArg THEN Color(0, 0, 0, 0) ELSE luaXL_checkcolor(L, 2, 255)

canvas_f_clear(L, alloc_ok) ==
  LET c == L[1]
      size == ren_get_size(surface[c])
      res == rencache_draw_rect(cache[c], Rect(0, 0, size[1], size[2]),
                                ClearColor(L), alloc_ok)
  IN /\ Running
     /\ budget.cmds > 0
     /\ alloc_ok \/ NeedsGrow(cache[c], [size |-> AlignedSize(SizeofDrawRect)])
     /\ res.pushed
     /\ cache' = [cache EXCEPT ![c] = res.rc]
     /\ hist' = [hist EXCEPT ![c].calls =
                   Append(@, [kind |-> "clear", cmd |-> res.cmd,
                              asked |-> ClearColorAsked(L)])]
     /\ budget' = [budget EXCEPT !.cmds = @ - 1]
     /\ UNCHANGED <<target_window, surface, snaps, RENDERER_FONT_REF,
                    RENDERER_CANVAS_REF, presented, show_vars, font_vars, aux_vars, api_ret,
                    aborted>>

(***************************************************************************)
(* The specifications.  Spec: two windows driven through the renderer      *)
(* module.  SpecC: a canvas driven through the canvas module.  SpecW: one  *)
(* window, for more and longer frames of clips, rectangles and text.       *)
(***************************************************************************)
\* the canvas the calls draw on, and the canvas they blit from
DrawnCanvas == "c1"
SourceCanvas == "c2"

FrameCalls(ws) ==
  \/ \E w \in ws : f_begin_frame(w)
  \/ f_end_frame

ClipCalls ==
  \E rect \in ClipRects, alloc_ok \in BOOLEAN : f_set_clip_rect(rect, alloc_ok)

RectCalls ==
  \E rect \in DrawRects, color \in RectColors, alloc_ok \in BOOLEAN :
    f_draw_rect(rect, color, alloc_ok)

TextCalls ==
  \E font \in Fonts, text \in Texts, at \in TextAt, alloc_ok \in BOOLEAN :
    f_draw_text(font, text, at[1], at[2], Blue, alloc_ok)

PolyCalls ==
  \E alloc_ok \in BOOLEAN : f_draw_poly(PolyPoints, Blue, alloc_ok)

CanvasRefCalls ==
  \/ \E id \in 1..MaxSnaps, at \in CanvasAt, alloc_ok \in BOOLEAN :
       f_draw_canvas(id, at[1], at[2], alloc_ok)
  \/ \E rect \in SnapRects : f_to_canvas(rect)

CanvasCalls ==
  \/ \E rect \in ClipRects, alloc_ok \in BOOLEAN :
       canvas_f_set_clip_rect(DrawnCanvas, rect, alloc_ok)
  \/ \E rect \in DrawRects, color \in RectColors, alloc_ok \in BOOLEAN :
       canvas_f_draw_rect(DrawnCanvas, rect, color, alloc_ok)
  \/ \E alloc_ok \in BOOLEAN :
       canvas_f_draw_poly(DrawnCanvas, PolyPoints, Blue, alloc_ok)
  \/ \E font \in Fonts, text \in Texts, at \in TextAt, alloc_ok \in BOOLEAN :
       canvas_f_draw_text(DrawnCanvas, font, text, at[1], at[2], Blue, alloc_ok)
  \/ \E at \in CanvasAt, blend \in BOOLEAN :
       canvas_f_draw_canvas(DrawnCanvas, SourceCanvas, at[1], at[2], blend)
  \/ canvas_f_render(DrawnCanvas)

Next ==
  \/ FrameCalls(Windows)
  \/ ClipCalls
  \/ RectCalls
  \/ TextCalls
  \/ PolyCalls
  \/ CanvasRefCalls

Spec == Init /\ [][Next]_vars

NextC == CanvasCalls

SpecC == InitC /\ [][NextC]_vars

\* SpecY: polygons given to renderer.draw_poly as tables of sub-tables
\* f_draw_poly's loop over the sub-tables from the i-th on: the tags of a
\* sub-table by its length, the test of the number of points, and the
\* points read two coordinates at a time
normal_tag == <<POLY_NORMAL>>
conic_bezier_tag == <<POLY_NORMAL, POLY_CONTROL_CONIC, POLY_NORMAL>>
cubic_bezier_tag ==
  <<POLY_NORMAL, POLY_CONTROL_CUBIC, POLY_CONTROL_CUBIC, POLY_NORMAL>>

\* the loop with no limit on the number of points (for C33)
RECURSIVE poly_points_unlimited(_, _, _)
poly_points_unlimited(tables, i, points) ==
  IF i > Len(tables) THEN [error |-> "none", points |-> points]
  ELSE LET coord_len == Len(tables[i])
           current_tag == CASE coord_len = 2 -> normal_tag
                            [] coord_len = 6 -> conic_bezier_tag
                            [] coord_len = 8 -> cubic_bezier_tag
                            [] OTHER -> <<>>
       IN IF current_tag = <<>>
          THEN [error |-> "invalid number of points", points |-> points]
          ELSE poly_points_unlimited(tables, i + 1,
                 points \o [k \in 1..(coord_len \div 2) |->
                              [x |-> tables[i][2 * k - 1], y |-> tables[i][2 * k],
                               tag |-> current_tag[k]]])

RECURSIVE poly_points(_, _, _)
poly_points(tables, i, points) ==
  IF i > Len(tables) THEN [error |-> "none", points |-> points]
  ELSE LET coord_len == Len(tables[i])
           current_tag == CASE coord_len = 2 -> normal_tag
                            [] coord_len = 6 -> conic_bezier_tag
                            [] coord_len = 8 -> cubic_bezier_tag
                            [] OTHER -> <<>>
       IN IF current_tag = <<>>
          THEN [error |-> "invalid number of points", points |-> points]
          ELSE IF Len(points) + coord_len \div 2 > MAX_POLY_POINTS
          THEN [error |-> "too many points", points |-> points]
          ELSE poly_points(tables, i + 1,
                 points \o [k \in 1..(coord_len \div 2) |->
                              [x |-> tables[i][2 * k - 1], y |-> tables[i][2 * k],
                               tag |-> current_tag[k]]])

\* renderer.draw_poly(tables, color): the points are built first; a wrong
\* sub-table raises the error before anything is recorded
f_draw_poly_tables(tables, color, alloc_ok) ==
  /\ Running
  /\ \E parsed \in {poly_points(tables, 1, <<>>)} :
       \/ /\ ~Recording
          /\ Abort("f_draw_poly")
       \/ /\ Recording
          /\ parsed.error # "none"
          /\ api_ret' = [op |-> "draw_poly", tables |-> tables,
                         error |-> parsed.error]
          /\ UNCHANGED <<target_window, cache, surface, snaps, RENDERER_FONT_REF,
                         RENDERER_CANVAS_REF, presented, show_vars, font_vars, aux_vars,
                         aborted, budget, hist>>
       \/ /\ Recording
          /\ parsed.error = "none"
          /\ budget.cmds > 0
          /\ alloc_ok \/ NeedsGrow(cache[target_window],
                 [size |-> AlignedSize(SizeofDrawBezier + Len(parsed.points)
                                         + Len(parsed.points) * SizeofRenPoint)])
          /\ Store(target_window,
                   rencache_draw_poly(cache[target_window], parsed.points, color,
                                      alloc_ok))
          /\ api_ret' = [op |-> "draw_poly", tables |-> tables, error |-> "none"]
          /\ UNCHANGED <<target_window, surface, snaps, RENDERER_FONT_REF,
                         RENDERER_CANVAS_REF, presented, show_vars, font_vars, aux_vars,
                         aborted>>

\* the tables given: a rectangle of four points, a point and a conic, a
\* cubic and a point (as many points as are allowed), a sub-table of four
\* coordinates, one of none, and a cubic with a conic (too many points)
PolyTables ==
  {<<<<2, 0>>, <<4, 0>>, <<4, 1>>, <<2, 1>>>>,
   <<<<0, 0>>, <<0, 0, 1, 1, 2, 0>>>>,
   <<<<0, 0, 0, 1, 2, 1, 2, 0>>, <<0, 0>>>>,
   <<<<0, 0>>, <<1, 0, 1, 1>>>>,
   <<<<0, 0>>, <<>>>>,
   <<<<0, 0, 0, 1, 2, 1, 2, 0>>, <<0, 0, 1, 1, 2, 0>>>>}

NextY ==
  \/ FrameCalls({"w1"})
  \/ ClipCalls
  \/ \E tables \in PolyTables, alloc_ok \in BOOLEAN :
       f_draw_poly_tables(tables, Blue, alloc_ok)

InitY == InitWith([frames |-> MaxYFrames, cmds |-> MaxYCmds])

SpecY == InitY /\ [][NextY]_vars

\* SpecM: the diff scan and the merge of rencache_end_frame taken one cell
\* at a time, from every pattern of cells that differ between the grids
frame_vars == <<target_window, cache, surface, snaps, RENDERER_FONT_REF,
                RENDERER_CANVAS_REF, presented, show_vars, font_vars, api_ret,
                aborted, budget, hist>>

\* the number of entries of rect_buf
RECT_BUF_SIZE == (CellsX * CellsY) \div 2

\* one turn of the loop over the cells: the cell at position k of the scan
\* is compared, pushed if it differs, and reset in the previous grid
diff_scan_cell ==
  /\ scan.phase = "scan"
  /\ scan.k < scan.max_x * scan.max_y
  /\ LET x == scan.k % scan.max_x
         y == scan.k \div scan.max_x
         idx == cell_idx(x, y)
     IN scan' = [scan EXCEPT
                   !.rect_buf = IF scan.cells[idx] # scan.cells_prev[idx]
                                THEN push_rect(@, Rect(x, y, 1, 1))
                                ELSE @,
                   !.cells_prev[idx] = HASH_INITIAL,
                   !.k = @ + 1]
  /\ UNCHANGED <<frame_vars, renwin>>

\* the loop that follows the scan: the rects from cells to pixels, cut to
\* the screen
diff_scan_expand ==
  /\ scan.phase = "scan"
  /\ scan.k = scan.max_x * scan.max_y
  /\ scan' = [scan EXCEPT !.rect_buf = expand_rects(@, scan.screen_rect),
                          !.phase = "expanded"]
  /\ UNCHANGED <<frame_vars, renwin>>

\* a cell's hash after a record was folded into it
SomeHash == hash_step(HASH_INITIAL, 1)

\* the scans: a screen of 7 x 5 pixels, one cell short of the grid's width,
\* on which any cells were drawn after an empty frame; and one as wide as
\* the grid, 8 x 3, on which nothing is drawn after a frame that drew on
\* any cells
ScanStart(width, height, cells, cells_prev) ==
  [phase |-> "scan", k |-> 0, rect_buf |-> <<>>,
   max_x |-> CDiv(width, CellSize) + 1, max_y |-> CDiv(height, CellSize) + 1,
   screen_rect |-> Rect(0, 0, width, height),
   cells |-> cells, cells_prev |-> cells_prev, first_prev |-> cells_prev]
NoHashes == [i \in CellIndexes |-> HASH_INITIAL]
HashPatterns == [CellIndexes -> {HASH_INITIAL, SomeHash}]
ScanInits ==
  {ScanStart(CellsX * CellSize - 1, CellsY * CellSize - 1, g, NoHashes) :
     g \in HashPatterns}
  \cup {ScanStart(CellsX * CellSize, CellSize + 1, NoHashes, g) :
          g \in HashPatterns}

NextM ==
  \/ diff_scan_cell
  \/ diff_scan_expand

InitM ==
  /\ InitFilled([frames |-> 0, cmds |-> 0],
                [c \in Canvases |-> IF c = "c1" THEN Black ELSE Blue])
  /\ scan \in ScanInits

SpecM == InitM /\ [][NextM]_vars

\* SpecP: the pixels of a canvas made with a half-transparent fill, read,
\* written back, cleared and drawn on
PixelRects == {Rect(0, 0, CanvasWidth, CanvasHeight), Rect(1, 0, 1, 1)}
ClearStacks == {<<DrawnCanvas>>, <<DrawnCanvas, Red>>, <<DrawnCanvas, GreenHalf>>}

\* the bytes a script has to write: those the last get_pixels returned
GotBytes == IF api_ret.op = "get_pixels" THEN api_ret.bytes ELSE <<>>

NextP ==
  \/ \E rect \in PixelRects : canvas_f_get_pixels(DrawnCanvas, rect)
  \/ \E rect \in PixelRects : canvas_f_set_pixels(DrawnCanvas, GotBytes, rect)
  \/ \E L \in ClearStacks, alloc_ok \in BOOLEAN : canvas_f_clear(L, alloc_ok)
  \/ \E rect \in DrawRects, alloc_ok \in BOOLEAN :
       canvas_f_draw_rect(DrawnCanvas, rect, Red, alloc_ok)
  \/ canvas_f_render(DrawnCanvas)

InitP ==
  /\ InitFilled([frames |-> MaxPFrames, cmds |-> MaxPCmds],
                [c \in Canvases |-> IF c = "c1" THEN GreenHalf ELSE Blue])
  /\ scan = NoScan

SpecP == InitP /\ [][NextP]_vars

NextW ==
  \/ FrameCalls({"w1"})
  \/ ClipCalls
  \/ RectCalls
  \/ TextCalls

SpecW == InitW /\ [][NextW]_vars

\* SpecR: one window that is resized between its frames
ResizeCalls ==
  \E size \in WindowSizes : window_resized("w1", size[1], size[2])

NextR ==
  \/ FrameCalls({"w1"})
  \/ RectCalls
  \/ ResizeCalls

SpecR == InitR /\ [][NextR]_vars

\* SpecG: one window whose frames record a small rectangle and a text too
\* long for the buffer, with realloc succeeding or failing
GrowthRectCalls ==
  \E alloc_ok \in BOOLEAN : f_draw_rect(Rect(0, 0, 1, 1), Red, alloc_ok)

GrowthTextCalls ==
  \E font \in Fonts, alloc_ok \in BOOLEAN :
    f_draw_text(font, LongText, LongTextAt[1], LongTextAt[2], Blue, alloc_ok)

NextG ==
  \/ FrameCalls({"w1"})
  \/ GrowthRectCalls
  \/ GrowthTextCalls

SpecG == InitG /\ [][NextG]_vars

\* SpecK: one window on which canvases made by to_canvas are drawn while
\* their pixels are overwritten
PixelCalls ==
  \E id \in 1..MaxSnaps, rect \in SnapRects :
    canvas_set_pixels(id, rect, PixelOf(Blue))

NextK ==
  \/ FrameCalls({"w1"})
  \/ RectCalls
  \/ CanvasRefCalls
  \/ PixelCalls

SpecK == InitK /\ [][NextK]_vars

(***************************************************************************)
(* The fonts of renderer.c: a RenFont with its atlas pages, the lookup of  *)
(* a glyph in a font group, and the calls of the font API.  Lengths are    *)
(* in 64ths of a pixel (FreeType's 26.6 values); the surface scale is 1.   *)
(***************************************************************************)
MAX_UNICODE == 1048576
GLYPHSET_SIZE == 16
MAX_LOADABLE_GLYPHSETS == MAX_UNICODE \div GLYPHSET_SIZE
SUBPIXEL_BITMAPS_CACHED == 3
FONT_HINTING_NONE == 0
FONT_HINTING_SLIGHT == 1
FONT_HINTING_FULL == 2
FONT_ANTIALIASING_NONE == 0
FONT_ANTIALIASING_GRAYSCALE == 1
FONT_ANTIALIASING_SUBPIXEL == 2
FONT_STYLE_BOLD == 1
FONT_STYLE_ITALIC == 2
FONT_STYLE_UNDERLINE == 4
FONT_STYLE_SMOOTH == 8
FONT_STYLE_STRIKETHROUGH == 16
\* the glyph drawn in place of a character no font of the group has
WhiteSquare == 9633
Tab == 9

\* The font files the run opens.  "sans" has 400 glyphs: one for "a", one
\* for the space and one for U+25A1; "cjk" has 600: one for "a", one for
\* the space and one for U+4E2D.  Neither has a glyph for the tab, for
\* U+00E9 or for U+2603.  Every glyph of a file has the same advance, in
\* 64ths of a pixel per pixel of size; height is face->height over
\* units_per_EM as a fraction.
FontFiles == {"sans", "cjk"}
FontFace(path) ==
  IF path = "sans"
  THEN [num_glyphs |-> 400, cmap |-> (97 :> 68) @@ (32 :> 3) @@ (WhiteSquare :> 300),
        advance |-> 32, height_num |-> 6, height_den |-> 5]
  ELSE [num_glyphs |-> 600, cmap |-> (97 :> 5) @@ (32 :> 1) @@ (20013 :> 500),
        advance |-> 64, height_num |-> 1, height_den |-> 1]

\* FT_Get_Char_Index: the glyph index of a character, 0 when the file has
\* none
FT_Get_Char_Index(path, c) ==
  IF c \in DOMAIN FontFace(path).cmap THEN FontFace(path).cmap[c] ELSE 0

\* FT_Load_Glyph succeeds for the glyph indexes of the file
FT_Load_Glyph(path, glyph_index) == glyph_index < FontFace(path).num_glyphs

\* slot->advance.x of a glyph loaded at a pixel size
AdvanceX(path, px) == px * FontFace(path).advance

\* (int)(size * surface_scale), at scale 1
PixelSize(size) == size

\* the metrics font_load_glyphset stores for a glyph index; the slot of an
\* index that is 0 or that fails to load stays as calloc left it
GlyphMetricOf(font, glyph_index) ==
  IF glyph_index = 0 \/ ~FT_Load_Glyph(font.path, glyph_index)
  THEN [loaded |-> FALSE, xadvance |-> 0]
  ELSE [loaded |-> TRUE, xadvance |-> AdvanceX(font.path, font.px)]

\* font_load_glyphset: one page per cached bitmap phase, each holding the
\* metrics of the 16 glyph indexes of the page; pages are numbered in the
\* order they are rasterized
font_load_glyphset(font, idx) ==
  LET bitmaps_cached == IF font.antialiasing = FONT_ANTIALIASING_SUBPIXEL
                        THEN SUBPIXEL_BITMAPS_CACHED ELSE 1
      page(j) == [metrics |-> [i \in 0..(GLYPHSET_SIZE - 1) |->
                                 GlyphMetricOf(font, i + idx * GLYPHSET_SIZE)],
                  px |-> font.px,
                  serial |-> font.rasterized + j + 1]
      loaded == [k \in {<<j, idx>> : j \in 0..(bitmaps_cached - 1)} |-> page(k[1])]
  IN [font EXCEPT !.sets = loaded @@ font.sets,
                  !.rasterized = @ + bitmaps_cached]

\* the phase and page index font_get_glyphset reads for a glyph index
GlyphSetKey(font, codepoint, subpixel_idx) ==
  <<IF font.antialiasing = FONT_ANTIALIASING_SUBPIXEL THEN subpixel_idx ELSE 0,
    (codepoint \div GLYPHSET_SIZE) % MAX_LOADABLE_GLYPHSETS>>

\* the variant of font_get_glyphset that loads the page at every lookup
font_get_glyphset_always_loads(font, codepoint, subpixel_idx) ==
  font_load_glyphset(font, GlyphSetKey(font, codepoint, subpixel_idx)[2])

\* font_get_glyphset: the font with the page of the glyph index loaded
font_get_glyphset(font, codepoint, subpixel_idx) ==
  LET key == GlyphSetKey(font, codepoint, subpixel_idx)
  IN IF key \notin DOMAIN font.sets
     THEN font_load_glyphset(font, key[2])
     ELSE font

\* the metric a lookup ended on: slot `slot' of page `key' of font `owner'
MetricOf(r) == r.heap[r.owner].sets[r.key].metrics[r.slot]

\* The loop of font_group_get_glyph over the members of the group, from
\* member i on: font_group_loop finds the glyph index cp to look up in
\* member i, font_group_member loads its page, and font_group_try reads
\* the metric and returns or goes on; returned tells whether the loop
\* left by its return.
RECURSIVE font_group_loop(_, _, _, _, _, _, _)
font_group_try(heap, fonts, i, codepoint, fb_codepoint, bitmap_index, is_tab, cp, font) ==
  LET a == fonts[i]
      key == GlyphSetKey(font, cp, bitmap_index)
      slot == cp % GLYPHSET_SIZE
      h1 == [heap EXCEPT ![a] = font]
  IN IF font.sets[key].metrics[slot].loaded \/ fb_codepoint = 0
     THEN [heap |-> IF is_tab
                    THEN [h1 EXCEPT ![a].sets[key].metrics[slot].xadvance =
                                      font.tab_advance]
                    ELSE h1,
           font |-> a, owner |-> a, key |-> key, slot |-> slot,
           returned |-> TRUE]
     ELSE IF i < Len(fonts)
          THEN font_group_loop(h1, fonts, i + 1, codepoint, fb_codepoint,
                               bitmap_index, is_tab)
          ELSE [heap |-> h1, font |-> fonts[1], owner |-> a, key |-> key,
                slot |-> slot, returned |-> FALSE]

font_group_member(heap, fonts, i, codepoint, fb_codepoint, bitmap_index, is_tab, cp) ==
  font_group_try(heap, fonts, i, codepoint, fb_codepoint, bitmap_index, is_tab,
                 cp, font_get_glyphset(heap[fonts[i]], cp, bitmap_index))

font_group_loop(heap, fonts, i, codepoint, fb_codepoint, bitmap_index, is_tab) ==
  font_group_member(heap, fonts, i, codepoint, fb_codepoint, bitmap_index, is_tab,
                    IF i = 1 THEN codepoint
                    ELSE FT_Get_Char_Index(heap[fonts[i]].path, fb_codepoint))

\* the fb_codepoint and bitmap_index font_group_get_glyph works with
FallbackOf(fb_codepoint) == IF fb_codepoint = Tab THEN 0 ELSE fb_codepoint
PhaseOf(bitmap_index) ==
  IF bitmap_index < 0 THEN bitmap_index + SUBPIXEL_BITMAPS_CACHED
  ELSE bitmap_index

\* font_group_get_glyph: the font returned and the metric the lookup ended
\* on, with the pages it loaded on the way; font_group_after_loop is what
\* follows the loop, whose result is r
RECURSIVE font_group_get_glyph(_, _, _, _, _)
font_group_after_loop(fonts, fb_codepoint, bitmap_index, r) ==
  IF r.returned THEN r
  ELSE IF ~MetricOf(r).loaded /\ FallbackOf(fb_codepoint) > 255
          /\ FallbackOf(fb_codepoint) # WhiteSquare
       THEN font_group_get_glyph(r.heap, fonts, WhiteSquare, WhiteSquare,
                                 PhaseOf(bitmap_index))
       ELSE r

font_group_get_glyph(heap, fonts, codepoint, fb_codepoint, bitmap_index) ==
  font_group_after_loop(fonts, fb_codepoint, bitmap_index,
                        font_group_loop(heap, fonts, 1, codepoint,
                                        FallbackOf(fb_codepoint),
                                        PhaseOf(bitmap_index),
                                        fb_codepoint = Tab))

\* the variant of font_clear_glyph_cache that frees the pages of phase 0
font_clear_glyph_cache_phase0(font) ==
  [font EXCEPT !.sets = [k \in {q \in DOMAIN font.sets : q[1] # 0} |-> font.sets[k]]]

\* font_clear_glyph_cache: every page of every phase freed
font_clear_glyph_cache(font) == [font EXCEPT !.sets = <<>>]

\* (short)((face->height / (float)face->units_per_EM) * size)
FontHeight(path, size) ==
  (size * FontFace(path).height_num) \div FontFace(path).height_den

\* ren_font_load: the new RenFont (the files of the run all open)
ren_font_load(path, size, antialiasing, hinting, style) ==
  [path |-> path, size |-> size, px |-> PixelSize(size),
   height |-> FontHeight(path, size),
   antialiasing |-> antialiasing, hinting |-> hinting, style |-> style,
   space_advance |-> AdvanceX(path, PixelSize(size)),
   tab_advance |-> AdvanceX(path, PixelSize(size)) * 2,
   sets |-> <<>>, rasterized |-> 0]

\* ren_font_copy: -1 stands for the font's own value
ren_font_copy(font, size, antialiasing, hinting, style) ==
  ren_font_load(font.path, size,
                IF antialiasing = -1 THEN font.antialiasing ELSE antialiasing,
                IF hinting = -1 THEN font.hinting ELSE hinting,
                IF style = -1 THEN font.style ELSE style)

\* ren_font_group_get_tab_size of renderer.c
font_group_tab_size(heap, fonts) ==
  IF heap[fonts[1]].space_advance # 0
  THEN heap[fonts[1]].tab_advance \div heap[fonts[1]].space_advance
  ELSE heap[fonts[1]].tab_advance

\* ren_font_group_get_height of renderer.c
font_group_get_height(heap, fonts) == heap[fonts[1]].height

\* ren_font_group_set_size
ren_font_group_set_size(heap, fonts, size) ==
  [a \in DOMAIN heap |->
     IF \E i \in DOMAIN fonts : fonts[i] = a
     THEN [font_clear_glyph_cache(heap[a]) EXCEPT
             !.px = PixelSize(size),
             !.size = size,
             !.height = FontHeight(heap[a].path, size),
             !.space_advance = AdvanceX(heap[a].path, PixelSize(size)),
             !.tab_advance = AdvanceX(heap[a].path, PixelSize(size)) * 2]
     ELSE heap[a]]

\* utf8_to_codepoint: the character that starts at byte offset p of the text
utf8_to_codepoint(text, p) ==
  LET up == text[p + 1]
      lead == (up \div 16) * 16
      n == IF lead = 240 THEN 3
           ELSE IF lead = 224 THEN 2
           ELSE IF lead = 208 \/ lead = 192 THEN 1
           ELSE 0
      res0 == IF lead = 240 THEN up % 8
              ELSE IF lead = 224 THEN up % 16
              ELSE IF lead = 208 \/ lead = 192 THEN up % 32
              ELSE up
      cont(k) == text[p + 1 + k] % 64
  IN IF n = 0 THEN res0
     ELSE IF n = 1 THEN res0 * 64 + cont(1)
     ELSE IF n = 2 THEN (res0 * 64 + cont(1)) * 64 + cont(2)
     ELSE ((res0 * 64 + cont(1)) * 64 + cont(2)) * 64 + cont(3)

\* hb_shape with the first font of the group: one glyph per character of
\* the text, with the font's glyph index for it (0 when it has none) and
\* the byte offset of the character as its cluster
hb_shape(font, text) ==
  LET starts == {p \in 0..(Len(text) - 1) : text[p + 1] \div 64 # 2}
      nth(k) == CHOOSE p \in starts : Cardinality({q \in starts : q < p}) = k - 1
  IN [k \in 1..Cardinality(starts) |->
        [codepoint |-> FT_Get_Char_Index(font.path, utf8_to_codepoint(text, nth(k))),
         cluster |-> nth(k)]]

\* the loop of ren_font_group_get_width over the glyphs, from glyph i on;
\* get_width_add adds the advance of the glyph the lookup r ended on
RECURSIVE get_width_loop(_, _, _, _, _, _)
get_width_add(fonts, text, glyph_info, i, width, r) ==
  get_width_loop(r.heap, fonts, text, glyph_info, i + 1,
                 width + (IF MetricOf(r).xadvance # 0 THEN MetricOf(r).xadvance
                          ELSE r.heap[fonts[1]].space_advance))

get_width_loop(heap, fonts, text, glyph_info, i, width) ==
  IF i > Len(glyph_info) THEN [heap |-> heap, width |-> width]
  ELSE get_width_add(fonts, text, glyph_info, i, width,
                     font_group_get_glyph(heap, fonts, glyph_info[i].codepoint,
                                          utf8_to_codepoint(text, glyph_info[i].cluster),
                                          0))

\* ren_font_group_get_width of renderer.c: the width and the heap with the
\* pages the call loaded
font_group_get_width(heap, fonts, text) ==
  get_width_loop(heap, fonts, text, hb_shape(heap[fonts[1]], text), 1, 0)

\* (int)(fmod(pen_x, 1.0) * SUBPIXEL_BITMAPS_CACHED)
BitmapIndex(pen_x) ==
  IF pen_x >= 0 THEN ((pen_x % 64) * SUBPIXEL_BITMAPS_CACHED) \div 64
  ELSE 0 - (((0 - pen_x) % 64) * SUBPIXEL_BITMAPS_CACHED) \div 64

\* what ren_draw_text draws for the glyph the lookup r ended on: the glyph
\* of a font, a rectangle as wide as a space less a pixel, or nothing
DrawnFor(fb_codepoint, r) ==
  [fb_codepoint |-> fb_codepoint] @@
  (IF MetricOf(r).loaded
   THEN [kind |-> "glyph", font |-> r.owner,
         glyph_index |-> r.key[2] * GLYPHSET_SIZE + r.slot,
         phase |-> r.key[1], px |-> r.heap[r.owner].sets[r.key].px]
   ELSE IF fb_codepoint > 255
        THEN [kind |-> "rect", w |-> r.heap[r.font].space_advance - 64]
        ELSE [kind |-> "nothing"])

\* the loop of ren_draw_text of renderer.c over the glyphs, from glyph i
\* on; draw_text_glyph draws the glyph the lookup r ended on and advances
\* the pen
RECURSIVE draw_text_loop(_, _, _, _, _, _, _)
draw_text_glyph(fonts, text, glyph_info, i, pen_x, drawn, r) ==
  draw_text_loop(r.heap, fonts, text, glyph_info, i + 1,
                 pen_x + (IF MetricOf(r).xadvance # 0 THEN MetricOf(r).xadvance
                          ELSE r.heap[r.font].space_advance),
                 Append(drawn,
                        DrawnFor(utf8_to_codepoint(text, glyph_info[i].cluster), r)))

draw_text_loop(heap, fonts, text, glyph_info, i, pen_x, drawn) ==
  IF i > Len(glyph_info) THEN [heap |-> heap, pen_x |-> pen_x, drawn |-> drawn]
  ELSE draw_text_glyph(fonts, text, glyph_info, i, pen_x, drawn,
                       font_group_get_glyph(heap, fonts, glyph_info[i].codepoint,
                                            utf8_to_codepoint(text, glyph_info[i].cluster),
                                            BitmapIndex(pen_x)))

\* ren_draw_text of renderer.c, as far as the fonts go
font_group_draw_text(heap, fonts, text, x) ==
  draw_text_loop(heap, fonts, text, hb_shape(heap[fonts[1]], text), 1, x, <<>>)

(***************************************************************************)
(* The calls of the font API (api/renderer.c).                             *)
(***************************************************************************)
NoTable == [antialiasing |-> "nil", hinting |-> "nil", italic |-> FALSE,
            bold |-> FALSE, underline |-> FALSE, smoothing |-> FALSE,
            strikethrough |-> FALSE, table |-> FALSE]
OptionsTable(antialiasing, italic) ==
  [NoTable EXCEPT !.antialiasing = antialiasing, !.italic = italic,
                  !.table = TRUE]

\* font_get_options: the defaults, replaced by what the options table gives
font_get_options(opts, antialiasing, hinting, style) ==
  LET style_local == (IF opts.italic THEN FONT_STYLE_ITALIC ELSE 0)
                     + (IF opts.bold THEN FONT_STYLE_BOLD ELSE 0)
                     + (IF opts.underline THEN FONT_STYLE_UNDERLINE ELSE 0)
                     + (IF opts.smoothing THEN FONT_STYLE_SMOOTH ELSE 0)
                     + (IF opts.strikethrough THEN FONT_STYLE_STRIKETHROUGH ELSE 0)
  IN IF ~opts.table
     THEN [antialiasing |-> antialiasing, hinting |-> hinting, style |-> style]
     ELSE [antialiasing |-> IF opts.antialiasing = "none" THEN FONT_ANTIALIASING_NONE
                            ELSE IF opts.antialiasing = "grayscale"
                                 THEN FONT_ANTIALIASING_GRAYSCALE
                            ELSE IF opts.antialiasing = "subpixel"
                                 THEN FONT_ANTIALIASING_SUBPIXEL
                            ELSE antialiasing,
           hinting |-> IF opts.hinting = "slight" THEN FONT_HINTING_SLIGHT
                       ELSE IF opts.hinting = "none" THEN FONT_HINTING_NONE
                       ELSE IF opts.hinting = "full" THEN FONT_HINTING_FULL
                       ELSE hinting,
           style |-> IF style_local # 0 THEN style_local ELSE style]

\* the font groups a call can be given: one font, or two different ones
FontGroups ==
  {<<p>> : p \in DOMAIN font_heap}
    \cup {<<p[1], p[2]>> : p \in {q \in (DOMAIN font_heap) \X (DOMAIN font_heap) :
                                      q[1] # q[2]}}

\* a font call uses one unit of the budget and leaves the windows, the
\* canvases and their caches alone
FontCall ==
  /\ Running
  /\ budget.cmds > 0
  /\ budget' = [budget EXCEPT !.cmds = @ - 1]
  /\ UNCHANGED <<target_window, cache, surface, snaps, RENDERER_FONT_REF,
                 RENDERER_CANVAS_REF, presented, show_vars, aborted, hist,
                 api_ret, aux_vars>>

\* renderer.font.load(filename, size, options)
f_font_load(filename, size, opts) ==
  LET o == font_get_options(opts, FONT_ANTIALIASING_SUBPIXEL, FONT_HINTING_SLIGHT, 0)
  IN /\ FontCall
     /\ Len(font_heap) < MaxFonts
     /\ font_heap' = Append(font_heap,
                            ren_font_load(filename, size, o.antialiasing,
                                          o.hinting, o.style))
     /\ font_ret' = [op |-> "load", filename |-> filename, size |-> size,
                     opts |-> opts, value |-> <<Len(font_heap) + 1>>]

\* font:copy(size, options); has_size tells whether argument 2 is given
f_font_copy(fonts, has_size, size_arg, opts) ==
  LET size == IF has_size THEN size_arg
              ELSE font_group_get_height(font_heap, fonts)
      o == font_get_options(opts, -1, -1, -1)
      copies == [i \in DOMAIN fonts |->
                   ren_font_copy(font_heap[fonts[i]], size, o.antialiasing,
                                 o.hinting, o.style)]
  IN /\ FontCall
     /\ Len(font_heap) + Len(fonts) <= MaxFonts
     /\ font_heap' = font_heap \o copies
     /\ font_ret' = [op |-> "copy", fonts |-> fonts, has_size |-> has_size,
                     size |-> size_arg, opts |-> opts,
                     value |-> [i \in DOMAIN fonts |-> Len(font_heap) + i]]

\* font:set_tab_size(n)
f_font_set_tab_size(fonts, n) ==
  /\ FontCall
  /\ font_heap' = ren_font_group_set_tab_size(font_heap, fonts, n)
  /\ font_ret' = [op |-> "set_tab_size", fonts |-> fonts, n |-> n]

\* font:set_size(size)
f_font_set_size(fonts, size) ==
  /\ FontCall
  /\ font_heap' = ren_font_group_set_size(font_heap, fonts, size)
  /\ font_ret' = [op |-> "set_size", fonts |-> fonts, size |-> size]

\* font:get_width(text)
f_font_get_width(fonts, text) ==
  /\ FontCall
  /\ \E r \in {font_group_get_width(font_heap, fonts, text)} :
       /\ font_heap' = r.heap
       /\ font_ret' = [op |-> "get_width", fonts |-> fonts, text |-> text,
                       value |-> r.width]

\* the ren_draw_text a replayed DRAW_TEXT record makes, at pen position x
font_draw_text(fonts, text, x) ==
  /\ FontCall
  /\ \E r \in {font_group_draw_text(font_heap, fonts, text, x)} :
       /\ font_heap' = r.heap
       /\ font_ret' = [op |-> "draw_text", fonts |-> fonts, text |-> text,
                       x |-> x, value |-> r.pen_x, drawn |-> r.drawn]

\* the texts measured: "a", U+4E2D, and U+00E9 followed by a tab; the
\* texts drawn: "a", U+00E9, U+4E2D and U+2603
WidthTexts == {<<97>>, <<228, 184, 173>>, <<195, 169, Tab>>}
DrawTexts == {<<97>>, <<195, 169>>, <<228, 184, 173>>, <<226, 152, 131>>}
FontSizes == {10, 15}
\* the options fonts are loaded with: none, or grayscale and italic; and
\* those they are copied with: none, or subpixel and no italic
LoadOptions == {NoTable, OptionsTable("grayscale", TRUE)}
CopyOptions == {NoTable, OptionsTable("subpixel", FALSE)}
TabSizes == {4}
\* the pen position texts are drawn at: three quarters of a pixel
PenXs == {48}

FontLoadCalls ==
  \E filename \in FontFiles, opts \in LoadOptions :
    f_font_load(filename, 10, opts)
FontCopyCalls ==
  \E fonts \in FontGroups, has_size \in BOOLEAN, opts \in CopyOptions :
    f_font_copy(fonts, has_size, 15, opts)
FontTabCalls == \E fonts \in FontGroups, n \in TabSizes : f_font_set_tab_size(fonts, n)
FontSizeCalls == \E fonts \in FontGroups, size \in FontSizes : f_font_set_size(fonts, size)
FontWidthCalls == \E fonts \in FontGroups, text \in WidthTexts : f_font_get_width(fonts, text)
FontDrawCalls ==
  \E fonts \in FontGroups, text \in DrawTexts, x \in PenXs :
    font_draw_text(fonts, text, x)

NextF ==
  \/ FontLoadCalls
  \/ FontCopyCalls
  \/ FontTabCalls
  \/ FontSizeCalls
  \/ FontWidthCalls
  \/ FontDrawCalls

InitF == InitWith([frames |-> 0, cmds |-> MaxFCalls])
SpecF == InitF /\ [][NextF]_vars

\* ---------------------------------------------------------------------------
\* Text of loaded fonts in a frame: renderer.draw_text on a font of the heap,
\* whose record carries the tab size the group has when it is recorded
\* (rencache.c:239), with font:set_tab_size between the calls of a frame

\* f_draw_text (api/renderer.c:481-505) for a loaded font
f_draw_text_loaded(font, text, x, y, color, alloc_ok) ==
  /\ Running
  /\ HeapIndex(font) \in DOMAIN font_heap
  /\ \/ /\ ~Recording
        /\ Abort("f_draw_text")
     \/ /\ Recording
        /\ budget.cmds > 0
        /\ alloc_ok \/ NeedsGrow(cache[target_window],
                                 [size |-> AlignedSize(SizeofDrawText + Len(text) + 1)])
        /\ RENDERER_FONT_REF' = RENDERER_FONT_REF \cup {font}
        /\ Store(target_window,
                 rencache_draw_text_tab(cache[target_window], font_retrieve(font),
                                        font_group_tab_size(font_heap,
                                                            <<HeapIndex(font)>>),
                                        text, x, y, color, alloc_ok))
        /\ UNCHANGED <<target_window, surface, snaps, RENDERER_CANVAS_REF,
                       presented, show_vars, font_vars, aux_vars, api_ret, aborted>>

LoadedFonts == {"font1", "font2"}
FrameTabSizes == {4}

FrameTabCalls ==
  \E fonts \in FontGroups, n \in FrameTabSizes : f_font_set_tab_size(fonts, n)

NextT ==
  \/ f_font_load("sans", 10, NoTable)
  \/ FrameTabCalls
  \/ FrameCalls({"w1"})
  \/ \E font \in LoadedFonts, alloc_ok \in BOOLEAN :
       f_draw_text_loaded(font, <<97>>, 0, 0, Blue, alloc_ok)

InitT == InitWith([frames |-> MaxTFrames, cmds |-> MaxTCmds])

SpecT == InitT /\ [][NextT]_vars

\* ---------------------------------------------------------------------------
\* The renwindow module (api/renwindow.c): RenWindow objects, the userdata
\* handles Lua holds to them, and the static persistant_window. A RenWindow
\* is known by its address; an address freed by ren_destroy may be given out
\* again by a later ren_create. Each handle also notes which window its
\* pointer was made for.

\* the live window at address a, 0 when there is none
WindowAt(rw, a) ==
  IF \E w \in DOMAIN rw.windows :
       rw.windows[w].addr = a /\ rw.windows[w].destroyed = 0
  THEN CHOOSE w \in DOMAIN rw.windows :
         rw.windows[w].addr = a /\ rw.windows[w].destroyed = 0
  ELSE 0

\* ren_create: a new RenWindow at address a
ren_create(rw, a) ==
  [rw EXCEPT !.windows = Append(@, [addr |-> a, destroyed |-> 0])]

\* ren_destroy on the pointer a that was made for window w: it destroys the
\* window now living at a; when there is none, w is destroyed once more
ren_destroy(rw, a, w) ==
  LET hit == IF WindowAt(rw, a) # 0 THEN WindowAt(rw, a) ELSE w
  IN [rw EXCEPT !.windows[hit].destroyed = @ + 1]

NewHandle(rw, a) ==
  [rw EXCEPT !.handles = Append(@, [addr |-> a, window |-> WindowAt(rw, a),
                                    live |-> TRUE])]

LiveHandles == {h \in DOMAIN renwin.handles : renwin.handles[h].live}

f_renwin_create(a) ==
  /\ Len(renwin.windows) < MaxRenWindows
  /\ Len(renwin.handles) < MaxHandles
  /\ WindowAt(renwin, a) = 0
  /\ renwin' = NewHandle(ren_create(renwin, a), a)
  /\ UNCHANGED <<frame_vars, scan>>

f_renwin_gc(h) ==
  /\ h \in LiveHandles
  /\ LET window_renderer == renwin.handles[h].addr
         rw == [renwin EXCEPT !.handles[h].live = FALSE]
     IN renwin' = IF window_renderer # renwin.persistant_window
                  THEN ren_destroy(rw, window_renderer, renwin.handles[h].window)
                  ELSE rw
  /\ UNCHANGED <<frame_vars, scan>>

f_renwin_persist(h) ==
  /\ h \in LiveHandles
  /\ renwin' = [renwin EXCEPT !.persistant_window = renwin.handles[h].addr]
  /\ UNCHANGED <<frame_vars, scan>>

f_renwin_restore ==
  /\ Len(renwin.handles) < MaxHandles
  /\ renwin' = IF renwin.persistant_window = 0
               THEN renwin
               ELSE NewHandle(renwin, renwin.persistant_window)
  /\ UNCHANGED <<frame_vars, scan>>

WindowAddrs == 1..MaxRenWindows

NextH ==
  \/ \E a \in WindowAddrs : f_renwin_create(a)
  \/ \E h \in 1..MaxHandles : f_renwin_gc(h)
  \/ \E h \in 1..MaxHandles : f_renwin_persist(h)
  \/ f_renwin_restore

InitH == InitWith([frames |-> 0, cmds |-> 0])

SpecH == InitH /\ [][NextH]_vars

(***************************************************************************)
(* The properties.                                                         *)
(***************************************************************************)
\* the pixels on which two pixel maps of one surface differ
ChangedPixels(before, after) == {p \in DOMAIN before : before[p] # after[p]}

\* whether pixel p lies in one of the rectangles
CoveredBy(p, rects) == \E i \in 1..Len(rects) : InRect(p, rects[i])

\* the records of a command buffer as the bytes the cache hashes
BufferBytes(cmds) == [i \in 1..Len(cmds) |-> CommandBytes(cmds[i])]

\* C1: a begin_frame made while a target is recording ends the process and
\* leaves the latch and every command buffer as they were; while a target
\* is recording the latch never moves to another target.
C1_BeginFrameRefused ==
  [][/\ \A w \in Windows :
          (Recording /\ f_begin_frame(w)) =>
             /\ aborted' = "f_begin_frame"
             /\ target_window' = target_window
             /\ \A t \in Targets : cache'[t].command_buf = cache[t].command_buf
     /\ Recording => target_window' \in {target_window, NoTarget}]_vars

\* a begin_frame was made while a target was recording
C1_Witness == aborted = "f_begin_frame" /\ target_window \in Windows

\* C2: the latch changes only in a begin_frame, from null to the window
\* given, and in an end_frame, from the recording window to null; an
\* end_frame with no target recording ends the process; an accepted
\* end_frame ends the frame of the latched window and of no other target.
C2_LatchOnlyByFrameCalls ==
  [][/\ target_window' # target_window =>
          \/ /\ target_window = NoTarget
             /\ \E w \in Windows : target_window' = w /\ f_begin_frame(w)
          \/ /\ target_window' = NoTarget
             /\ f_end_frame
     /\ (~Recording /\ f_end_frame) =>
          aborted' = "f_end_frame" /\ cache' = cache /\ surface' = surface
     /\ \A w \in Windows :
          hist'[w].frames # hist[w].frames =>
            /\ target_window = w
            /\ target_window' = NoTarget
            /\ f_end_frame
            /\ \A t \in Targets \ {w} :
                 cache'[t] = cache[t] /\ surface'[t] = surface[t] /\ hist'[t] = hist[t]]_vars

\* frames of both windows were begun and ended, one after the other
C2_Witness ==
  /\ target_window = NoTarget
  /\ \A w \in Windows : hist[w].frames = 1

\* C3: with no target recording, none of set_clip_rect, draw_rect,
\* draw_text, draw_poly and draw_canvas of the renderer module can return:
\* each ends the process (and so appends nothing).
C3_DrawOutsideFrameFatal ==
  (Running /\ ~Recording) =>
    /\ \A rect \in ClipRects :
         ~ENABLED (f_set_clip_rect(rect, TRUE) /\ aborted' = "no")
    /\ \A rect \in DrawRects, color \in RectColors :
         ~ENABLED (f_draw_rect(rect, color, TRUE) /\ aborted' = "no")
    /\ \A font \in Fonts, text \in Texts, at \in TextAt :
         ~ENABLED (f_draw_text(font, text, at[1], at[2], Blue, TRUE) /\ aborted' = "no")
    /\ ~ENABLED (f_draw_poly(PolyPoints, Blue, TRUE) /\ aborted' = "no")
    /\ \A id \in DOMAIN snaps, at \in CanvasAt :
         ~ENABLED (f_draw_canvas(id, at[1], at[2], TRUE) /\ aborted' = "no")

\* a draw call made with no target recording ended the process
C3_Witness == aborted \in {"f_draw_rect", "f_draw_text", "f_draw_poly"}

\* C4: the pixels of a target's surface change only in the step that ends
\* its frame: end_frame for a window, render for a canvas.
C4_DrawsOnlyRecord ==
  [][\A t \in Targets :
       surface'[t].px # surface[t].px =>
         \/ t \in Windows /\ t = target_window /\ f_end_frame
         \/ t \in Canvases /\ canvas_f_render(t)]_vars

\* a canvas draw_canvas was made in a frame that is still open
C4_Witness ==
  \E i \in 1..Len(hist[DrawnCanvas].calls) : hist[DrawnCanvas].calls[i].kind = "blit"

\* what the calls of a frame give when they are applied to the surface one
\* after the other in the order in which they were made: a recorded call
\* as the redraw of the dirty rectangle r replays it, a draw_canvas blit
\* under the surface clip it was made with
RECURSIVE InOrder(_, _, _, _, _)
InOrder(surf, calls, i, r, canvases) ==
  IF i > Len(calls) THEN surf
  ELSE LET call == calls[i]
           next == IF call.kind = "blit"
                   THEN [SDL_BlitSurface([surf EXCEPT !.clip = call.clip],
                                         call.src, call.x, call.y, call.blend)
                           EXCEPT !.clip = surf.clip]
                   ELSE replay_command(surf, call.cmd, r, canvases)
       IN InOrder(next, calls, i + 1, r, canvases)

RECURSIVE InOrderRects(_, _, _, _, _)
InOrderRects(surf, rects, j, calls, canvases) ==
  IF j > Len(rects) THEN surf
  ELSE InOrderRects(InOrder(ren_set_clip_rect(surf, rects[j]), calls, 1, rects[j], canvases),
                    rects, j + 1, calls, canvases)

\* C5: when a frame of a canvas ends, every pixel of its dirty rectangles
\* is what the frame's drawing calls give when they are applied, in the
\* order in which they were made, to the surface the frame started with.
C5_EffectsInCallOrder ==
  [][\A c \in Canvases :
       canvas_f_render(c) =>
         LET rects == cache'[c].rect_buf
             want == InOrderRects(
                       [surface[c] EXCEPT !.px = hist[c].start],
                       rects, 1, hist[c].calls, RefSurfaces)
         IN \A p \in DOMAIN surface'[c].px :
              CoveredBy(p, rects) => surface'[c].px[p] = want.px[p]]_vars

\* a canvas was rendered after a draw_rect and a later draw_canvas over it
C5_Witness ==
  /\ hist[DrawnCanvas].frames = 1
  /\ Len(hist[DrawnCanvas].cmds) = 1
  /\ hist[DrawnCanvas].cmds[1].type = DRAW_RECT
  /\ surface[DrawnCanvas].px[<<1, 1>>] = PixelOf(Blue)

\* the clip in force for record i of a command buffer: the rectangle of the
\* last SET_CLIP record before it, or the screen rectangle
ClipAt(cmds, i, screen_rect) ==
  LET clips == {k \in 1..(i - 1) : cmds[k].type = SET_CLIP}
  IN IF clips = {} THEN screen_rect
     ELSE cmds[CHOOSE k \in clips : \A m \in clips : m <= k].rect

\* C6: in the redraw of end_frame, the pixels a draw record alters lie in
\* the rectangle of the last SET_CLIP record before it (the screen
\* rectangle if there is none), in the screen rectangle and in the dirty
\* rectangle being redrawn; and the rectangle recorded for
\* set_clip_rect(R) holds only pixels of R and of the screen rectangle.
C6_ClipContainment ==
  [][/\ (Recording /\ target_window' = NoTarget) =>
          LET w == target_window
              cmds == cache[w].command_buf
              rects == cache'[w].rect_buf
          IN \A j \in 1..Len(rects), i \in 1..Len(cmds) :
               cmds[i].type # SET_CLIP =>
                 LET base == redraw_from(surface[w], SubSeq(rects, 1, j - 1), 1,
                                         cmds, RefSurfaces)
                     before == replay_from(ren_set_clip_rect(base, rects[j]),
                                           SubSeq(cmds, 1, i - 1), 1, rects[j],
                                           RefSurfaces)
                     after == replay_command(before, cmds[i], rects[j], RefSurfaces)
                 IN \A p \in ChangedPixels(before.px, after.px) :
                      /\ InRect(p, ClipAt(cmds, i, cache[w].screen_rect))
                      /\ InRect(p, cache[w].screen_rect)
                      /\ InRect(p, rects[j])
     /\ \A rect \in ClipRects, alloc_ok \in BOOLEAN :
          (/\ Recording
           /\ Len(cache'[target_window].command_buf)
                > Len(cache[target_window].command_buf)
           /\ f_set_clip_rect(rect, alloc_ok)) =>
             LET buf == cache'[target_window].command_buf
                 rec == buf[Len(buf)]
             IN /\ rec.type = SET_CLIP
                /\ \A p \in DOMAIN surface[target_window].px :
                     InRect(p, rec.rect) =>
                       InRect(p, rect) /\ InRect(p, cache[target_window].screen_rect)]_vars

\* a frame ended whose rectangle, recorded after a set_clip_rect, reaches
\* out of the clip, and the pixels out of the clip are as they were
C6_Witness ==
  \E w \in Windows :
    /\ hist[w].frames = 1
    /\ Len(hist[w].cmds) = 2
    /\ hist[w].cmds[1].type = SET_CLIP
    /\ hist[w].cmds[1].rect = Rect(0, 0, 1, 2)
    /\ hist[w].cmds[2].type = DRAW_RECT
    /\ hist[w].cmds[2].rect = Rect(1, 0, 2, 1)
    /\ surface[w].px = hist[w].before

\* C7: the end_frame of a frame whose records are byte-equal, record by
\* record, to those of the target's previous frame presents no rectangle.
C7_IdenticalFramesPresentNothing ==
  [][\A w \in Windows :
       (/\ target_window = w
        /\ target_window' = NoTarget
        /\ hist[w].frames >= 1
        /\ BufferBytes(cache[w].command_buf) = BufferBytes(hist[w].cmds)) =>
          presented'[w] = <<>>]_vars

\* two frames with the same single record ended on a window
C7_Witness ==
  \E w \in Windows :
    /\ hist[w].frames = 2
    /\ Len(hist[w].cmds) = 1
    /\ hist[w].cmds = hist[w].prev_cmds

\* the cells of the grid that rencache_end_frame scans
InScreenCells(rc) ==
  {cell_idx(x, y) : x \in 0..CDiv(rc.screen_rect.width, CellSize),
                    y \in 0..CDiv(rc.screen_rect.height, CellSize)}

\* the first frame of window w is ending with nothing recorded
FirstFrameEmpty(w) ==
  /\ target_window = w
  /\ target_window' = NoTarget
  /\ hist[w].frames = 0
  /\ cache[w].command_buf = <<>>

\* C8 as amended: the first frame of a new window, ended with nothing
\* recorded, presents rectangles that cover the whole surface, and leaves
\* the current grid different from the previous grid in every scanned cell.
C8_FirstEmptyFramePresentsAll ==
  [][\A w \in Windows :
       FirstFrameEmpty(w) =>
         /\ \A p \in DOMAIN surface[w].px : CoveredBy(p, presented'[w])
         /\ \A idx \in InScreenCells(cache[w]) :
              GridOf(cache'[w], cache'[w].cells)[idx]
                # GridOf(cache'[w], cache'[w].cells_prev)[idx]]_vars

\* C8 as stated: the first frame of a new window, ended with nothing
\* recorded, presents no rectangle and leaves the two grids equal.
C8_FirstEmptyFramePresentsNothing ==
  [][\A w \in Windows :
       FirstFrameEmpty(w) =>
         /\ presented'[w] = <<>>
         /\ GridOf(cache'[w], cache'[w].cells)
              = GridOf(cache'[w], cache'[w].cells_prev)]_vars

\* the first frame of a window ended with nothing recorded
C8_Witness ==
  \E w \in Windows :
    /\ hist[w].frames = 1
    /\ hist[w].cmds = <<>>
    /\ target_window = NoTarget

\* the surface that the records of a frame give when all of them are
\* replayed over the whole of surf
FullReplay(surf, cmds, canvases) ==
  LET all == Rect(0, 0, surf.w, surf.h)
  IN replay_from(ren_set_clip_rect(surf, all), cmds, 1, all, canvases)

\* the pixels of the grid cell that holds pixel p
CellPixels(surf, p) ==
  {q \in DOMAIN surf.px :
     q[1] \div CellSize = p[1] \div CellSize /\ q[2] \div CellSize = p[2] \div CellSize}

OpaqueRect(cmd) == cmd.type = DRAW_RECT /\ cmd.color.a = 255

\* C10 as amended: the end_frame of a window changes no pixel outside the
\* rectangles it presents (so none when it presents none); and when the
\* frame's only record is an opaque rectangle, the pixels changed lie in
\* that rectangle and every pixel of it has its colour afterwards.
C10_ChangesInsidePresented ==
  [][\A w \in Windows :
       (target_window = w /\ target_window' = NoTarget) =>
         LET cmds == cache[w].command_buf
             changed == ChangedPixels(surface[w].px, surface'[w].px)
         IN /\ \A p \in changed : CoveredBy(p, presented'[w])
            /\ (Len(cmds) = 1 /\ OpaqueRect(cmds[1])) =>
                 \A p \in DOMAIN surface[w].px :
                   IF InRect(p, cmds[1].rect)
                   THEN surface'[w].px[p] = PixelOf(cmds[1].color)
                   ELSE p \notin changed]_vars

\* C10 as stated: when the records of a frame are those of the previous
\* frame followed by one opaque rectangle, the pixels changed lie in that
\* rectangle.  (Frames from a window's third on, which are not repainted
\* in full.)
C10_OnlyNewRectChanges ==
  [][\A w \in Windows :
       (target_window = w /\ target_window' = NoTarget /\ hist[w].frames >= 2) =>
         LET cmds == cache[w].command_buf
             n == Len(hist[w].cmds)
         IN (/\ Len(cmds) = n + 1
             /\ SubSeq(cmds, 1, n) = hist[w].cmds
             /\ OpaqueRect(cmds[n + 1])) =>
               \A p \in ChangedPixels(surface[w].px, surface'[w].px) :
                 InRect(p, cmds[n + 1].rect)]_vars

\* a third frame ended whose only record is an opaque rectangle, and it
\* presented a part of the surface
C10_Witness ==
  /\ hist["w1"].frames = 3
  /\ Len(hist["w1"].cmds) = 1
  /\ OpaqueRect(hist["w1"].cmds[1])
  /\ presented["w1"] # <<>>
  /\ \E p \in DOMAIN surface["w1"].px : ~CoveredBy(p, presented["w1"])
  /\ surface["w1"].px # hist["w1"].before

\* the frame of window w, begun on a surface whose size was not the cached
\* one, is ending
ResizedFrameEnds(w) ==
  /\ target_window = w
  /\ target_window' = NoTarget
  /\ hist[w].resized

\* C11: when the begin_frame of a window found a surface size other than
\* the cached screen_rect, the end_frame of that frame presents rectangles
\* that cover every pixel of the screen rectangle, whatever was recorded.
C11_ResizePresentsWholeScreen ==
  [][\A w \in Windows :
       ResizedFrameEnds(w) =>
         /\ cache[w].screen_rect = Rect(0, 0, surface[w].w, surface[w].h)
         /\ \A p \in DOMAIN surface[w].px : CoveredBy(p, presented'[w])]_vars

\* a window's third frame, begun after a resize, ended with a record in it
C11_Witness ==
  /\ hist["w1"].frames = 3
  /\ hist["w1"].resized
  /\ Len(hist["w1"].cmds) = 1
  /\ target_window = NoTarget

\* whether the rectangle r holds a pixel of the grid cell c = <<cx, cy>>
HoldsPixelOf(r, c) ==
  /\ r.width > 0 /\ r.height > 0
  /\ r.x < (c[1] + 1) * CellSize /\ r.x + r.width > c[1] * CellSize
  /\ r.y < (c[2] + 1) * CellSize /\ r.y + r.height > c[2] * CellSize

GridCells == (0..(CellsX - 1)) \X (0..(CellsY - 1))

\* the cells into which the hash pass folds record i of the buffer cmds:
\* those whose hash the record's step of the pass changes
FoldedCells(rc, cmds, i) ==
  LET before == hash_pass(SubSeq(cmds, 1, i - 1), 1, rc.screen_rect,
                          GridOf(rc, rc.cells), RefCounts).grid
      cr == IF cmds[i].type = SET_CLIP THEN cmds[i].rect
            ELSE ClipAt(cmds, i, rc.screen_rect)
      after == hash_pass(<<cmds[i]>>, 1, cr, before, RefCounts).grid
  IN {c \in GridCells : after[cell_idx(c[1], c[2])] # before[cell_idx(c[1], c[2])]}

\* the rectangle of record i cut by the running clip of the hash pass
ClippedRect(rc, cmds, i) ==
  intersect_rects(cmds[i].rect,
                  IF cmds[i].type = SET_CLIP THEN cmds[i].rect
                  ELSE ClipAt(cmds, i, rc.screen_rect))

VisitedCells(r) ==
  (CDiv(r.x, CellSize)..CDiv(r.x + r.width, CellSize))
    \X (CDiv(r.y, CellSize)..CDiv(r.y + r.height, CellSize))

\* the cell coordinates the cell scan of rencache_end_frame visits
ScannedCells(rc) ==
  (0..CDiv(rc.screen_rect.width, CellSize))
    \X (0..CDiv(rc.screen_rect.height, CellSize))

\* the cell coordinates the hash pass visits for the records of cmds
HashedCells(rc, cmds) ==
  UNION {IF ClippedRect(rc, cmds, i).width = 0 \/ ClippedRect(rc, cmds, i).height = 0
         THEN {}
         ELSE VisitedCells(ClippedRect(rc, cmds, i)) : i \in 1..Len(cmds)}

\* C13: every cell that the hash pass and the cell scan of an end_frame
\* index has its column in 0..CellsX-1 and its row in 0..CellsY-1, and so
\* an index inside the grid that belongs to no other cell.
C13_CellIndexesInsideGrid ==
  [][\A w \in Windows :
       (target_window = w /\ target_window' = NoTarget) =>
         \A c \in ScannedCells(cache[w]) \cup HashedCells(cache[w], cache[w].command_buf) :
           /\ c \in GridCells
           /\ cell_idx(c[1], c[2]) \in CellIndexes]_vars

\* a frame ended on a window as wide as the grid
C13_Witness ==
  /\ hist["w1"].frames >= 1
  /\ target_window = NoTarget
  /\ cache["w1"].screen_rect.width = CellsX * CellSize
  /\ cache["w1"].rect_buf # <<>>

\* C14: an end_frame leaves as previous grid the buffer that was the
\* current grid of the frame, holding the cell hashes the hash pass gave
\* the frame, and as current grid the other buffer; current and previous
\* are always the two different buffers, each with one entry per cell.
C14_GridsSwap ==
  [][/\ \A w \in Windows :
          (target_window = w /\ target_window' = NoTarget) =>
            /\ cache'[w].cells_prev = cache[w].cells
            /\ cache'[w].cells = cache[w].cells_prev
            /\ GridOf(cache'[w], cache'[w].cells_prev)
                 = hash_pass(cache[w].command_buf, 1, cache[w].screen_rect,
                             GridOf(cache[w], cache[w].cells), RefCounts).grid
     /\ \A t \in Targets :
          /\ {cache'[t].cells, cache'[t].cells_prev} = {1, 2}
          /\ DOMAIN cache'[t].cells_buf1 = CellIndexes
          /\ DOMAIN cache'[t].cells_buf2 = CellIndexes]_vars

\* two frames of a window ended, the second with a record in it, so that
\* the grids were swapped twice
C14_Witness ==
  \E w \in Windows :
    /\ hist[w].frames = 2
    /\ Len(hist[w].cmds) >= 1
    /\ cache[w].cells = 2 /\ cache[w].cells_prev = 1
    /\ GridOf(cache[w], cache[w].cells_prev) # GridOf(cache[w], cache[w].cells)

\* C15: no step lowers the capacity of a target's command buffer, and an
\* end_frame leaves the buffer of its window empty with the write index 0.
C15_CapacityMonotone ==
  [][\A t \in Targets :
       /\ cache'[t].command_buf_size >= cache[t].command_buf_size
       /\ (target_window = t /\ target_window' = NoTarget) =>
            /\ cache'[t].command_buf_idx = 0
            /\ cache'[t].command_buf = <<>>]_vars

\* a frame that grew the buffer beyond its first allocation has ended, and
\* the next frame has pushed a record into the storage kept
C15_Witness ==
  \E w \in Windows :
    /\ hist[w].frames >= 1
    /\ target_window = w
    /\ cache[w].command_buf_size > CMD_BUF_INIT_SIZE
    /\ cache[w].command_buf_idx = AlignedSize(SizeofDrawRect)

\* one growth step of the capacity, 1.2 times the old capacity rounded
\* down and rounded up
FloorStep(c) == IF c = 0 THEN CMD_BUF_INIT_SIZE ELSE (6 * c) \div 5
CeilStep(c) == IF c = 0 THEN CMD_BUF_INIT_SIZE ELSE (6 * c + 4) \div 5

RECURSIVE FloorGrowth(_, _)
FloorGrowth(c, n) == IF n <= c THEN c ELSE FloorGrowth(FloorStep(c), n)

RECURSIVE CeilGrowth(_, _)
CeilGrowth(c, n) == IF n <= c THEN c ELSE CeilGrowth(CeilStep(c), n)

C17_GrowthFailureKeepsFrame ==
  [][\A w \in Windows :
       /\ (~cache[w].resize_issue /\ cache'[w].resize_issue) =>
            /\ cache'[w].command_buf_idx = cache[w].command_buf_idx
            /\ cache'[w].command_buf = cache[w].command_buf
            /\ hist'[w].calls = hist[w].calls
            /\ budget' = budget
            /\ aborted' = "no"
       /\ (/\ cache[w].resize_issue
           /\ target_window = w /\ target_window' = w
           /\ aborted' # "f_begin_frame") =>
            /\ cache'[w] = cache[w]
            /\ hist'[w].calls = hist[w].calls
            /\ aborted' = "no"
       /\ (cache[w].resize_issue /\ target_window = w /\ target_window' = NoTarget) =>
            LET res == rencache_end_frame([cache[w] EXCEPT !.resize_issue = FALSE],
                                          surface[w], RefCounts, RefSurfaces)
            IN /\ surface'[w] = res.surf
               /\ presented'[w] = res.presented
               /\ hist'[w].cmds = cache[w].command_buf
               /\ cache'[w].command_buf_idx = 0
               /\ aborted' = "no"]_vars

\* a frame ended in which a long text failed to grow a buffer that held a
\* red rectangle: the flag is still set, the rectangle is on the surface
\* and was presented
C17_Witness ==
  \E w \in Windows :
    /\ target_window = NoTarget
    /\ cache[w].resize_issue
    /\ cache[w].command_buf_size = CMD_BUF_INIT_SIZE
    /\ Len(hist[w].cmds) >= 1
    /\ surface[w].px[<<0, 0>>] = PixelOf(Red)
    /\ presented[w] # <<>>

\* C18: the call that lets drawing on a target go on after a frame has
\* ended leaves resize_issue false: the render of a canvas, after which
\* the canvas is drawn on again at once, and the begin_frame of a window,
\* without which nothing is drawn on it.
C18_IssueEndsWithFrame ==
  [][/\ \A c \in Canvases :
          hist'[c].frames = hist[c].frames + 1 => ~cache'[c].resize_issue
     /\ \A w \in Windows :
          (target_window = NoTarget /\ target_window' = w) =>
            ~cache'[w].resize_issue]_vars

\* a canvas rendered with the flag set in the frame before: the flag is
\* still set with no call made since the render
C18_Witness ==
  \E c \in Canvases :
    /\ hist[c].frames >= 1
    /\ hist[c].calls = <<>>
    /\ cache[c].command_buf_idx = 0
    /\ cache[c].resize_issue

\* the records of the command buffers in caches that reference ref id
PinsOf(caches, id) ==
  UNION {{<<t, i>> : i \in {j \in DOMAIN caches[t].command_buf :
                              /\ caches[t].command_buf[j].type = DRAW_CANVAS
                              /\ caches[t].command_buf[j].canvas_ref = id}} :
         t \in Targets}

\* C19: after every step each ref's render_ref_count is the number of
\* DRAW_CANVAS records in the command buffers that reference it, and so
\* never negative; a step raises it, by one, exactly when it appends such
\* a record, and only an end_frame lowers it, to 0 for the refs its frame
\* referenced.
C19_RefCountCountsRecords ==
  [][/\ \A id \in DOMAIN snaps' :
          /\ snaps'[id].render_ref_count = Cardinality(PinsOf(cache', id))
          /\ snaps'[id].render_ref_count >= 0
     /\ \A id \in DOMAIN snaps :
          LET old == snaps[id].render_ref_count
              new == snaps'[id].render_ref_count
          IN /\ new > old =>
                  /\ new = old + 1
                  /\ target_window \in Windows
                  /\ cache'[target_window].command_buf
                       = Append(cache[target_window].command_buf,
                                [type |-> DRAW_CANVAS,
                                 size |-> AlignedSize(SizeofDrawCanvas),
                                 rect |-> cache'[target_window].command_buf[
                                            Len(cache'[target_window].command_buf)].rect,
                                 version |-> snaps[id].version,
                                 canvas_ref |-> id])
             /\ new < old =>
                  /\ target_window \in Windows /\ target_window' = NoTarget
                  /\ new = 0
                  /\ old = Cardinality(PinsOf(cache, id))
             /\ (\E w \in Windows : cache'[w].command_buf # cache[w].command_buf
                                     /\ PinsOf(cache', id) = PinsOf(cache, id)) =>
                  new = old]_vars

\* a ref drawn twice in the open frame, pinned twice
C19_Witness ==
  \E id \in DOMAIN snaps :
    /\ snaps[id].render_ref_count = 2
    /\ target_window \in Windows
    /\ Cardinality(PinsOf(cache, id)) = 2

\* the ref that is handle id's user value among the refs s
CurrentRefIn(s, id) ==
  CHOOSE i \in DOMAIN s :
    /\ s[i].handle = id
    /\ \A j \in DOMAIN s : s[j].handle = id => j <= i

DrawnAgainChanged(cmds, i, prev) ==
  /\ cmds[i].type = DRAW_CANVAS
  /\ \E j \in DOMAIN prev :
       /\ prev[j].type = DRAW_CANVAS
       /\ prev[j].rect = cmds[i].rect
       /\ prev[j].canvas_ref = cmds[i].canvas_ref
       /\ prev[j].version # cmds[i].version
  /\ \A j \in DOMAIN prev :
       (prev[j].type = DRAW_CANVAS /\ prev[j].rect = cmds[i].rect
          /\ prev[j].canvas_ref = cmds[i].canvas_ref) =>
         prev[j].version # cmds[i].version

C22_OneShowPerWindow ==
  [][\A w \in Windows :
       show_calls'[w] =
         IF target_window = w /\ target_window' = NoTarget /\ hist[w].frames = 0
         THEN show_calls[w] + 1
         ELSE show_calls[w]]_vars

\* both windows have ended a frame that presented rectangles, and the
\* second of them was never shown
C22_Witness ==
  /\ \A w \in Windows : hist[w].frames >= 1 /\ presented[w] # <<>>
  /\ \E w \in Windows : show_calls[w] = 0

\* the records cmds without record i
WithoutRecord(cmds, i) == SubSeq(cmds, 1, i - 1) \o SubSeq(cmds, i + 1, Len(cmds))

\* C23: a draw_rect whose rectangle does not reach the clip rectangle is
\* dropped and leaves the cache as it is; a record of a draw whose
\* rectangle has an empty intersection with the clip rectangle of its
\* place in the frame is folded into no cell, and the end_frame or render
\* of its frame leaves, without ending the process, the surface that the
\* frame without the record leaves.
C23_ClippedOutDrawIsNoOp ==
  [][\A t \in Targets :
       /\ \A rect \in DrawRects, color \in RectColors :
            ~rects_overlap(cache[t].last_clip_rect, rect) =>
              rencache_draw_rect(cache[t], rect, color, TRUE).rc = cache[t]
       /\ hist'[t].frames = hist[t].frames + 1 =>
            \A i \in DOMAIN cache[t].command_buf :
              LET cmds == cache[t].command_buf
                  r == ClippedRect(cache[t], cmds, i)
              IN (cmds[i].type # SET_CLIP /\ (r.width = 0 \/ r.height = 0)) =>
                   /\ FoldedCells(cache[t], cmds, i) = {}
                   /\ surface'[t] =
                        rencache_end_frame(
                          [cache[t] EXCEPT !.command_buf = WithoutRecord(cmds, i)],
                          surface[t], RefCounts, RefSurfaces).surf
                   /\ aborted' = "no"]_vars

\* a frame ended that set the clip rectangle to (0, 0, 1, 2) and then drew
\* a red rectangle at (1, 0), which touches the clip rectangle and was
\* recorded: the pixels of the rectangle are as they were
C23_Witness ==
  \E w \in Windows :
    /\ target_window = NoTarget
    /\ Len(hist[w].cmds) = 2
    /\ hist[w].cmds[1].type = SET_CLIP /\ hist[w].cmds[1].rect = Rect(0, 0, 1, 2)
    /\ hist[w].cmds[2].type = DRAW_RECT /\ hist[w].cmds[2].rect = Rect(1, 0, 2, 1)
    /\ hist[w].cmds[2].color = Red
    /\ surface[w].px[<<1, 0>>] = PixelOf(Black)
    /\ surface[w].px[<<2, 0>>] = PixelOf(Black)

(***************************************************************************)
(* The fonts.                                                              *)
(***************************************************************************)
\* the members of a group, from member i on, that have a glyph for c
HaveGlyph(fonts, i, c) ==
  {j \in i..Len(fonts) : FT_Get_Char_Index(font_heap[fonts[j]].path, c) # 0}

\* the first member of a non-empty set of members
FirstOf(members) == CHOOSE j \in members : \A k \in members : j <= k

\* the glyph of member j of the group for the character c
GlyphOf(fonts, j, c) ==
  [kind |-> "glyph", font |-> fonts[j],
   glyph_index |-> FT_Get_Char_Index(font_heap[fonts[j]].path, c)]

\* the fallback chain: the first font's glyph, else that of the first later
\* member that has one, else U+25A1 of the first member that has it, else
\* a rectangle
ChainChoice(fonts, c) ==
  IF HaveGlyph(fonts, 1, c) # {}
  THEN GlyphOf(fonts, FirstOf(HaveGlyph(fonts, 1, c)), c)
  ELSE IF HaveGlyph(fonts, 1, WhiteSquare) # {}
       THEN GlyphOf(fonts, FirstOf(HaveGlyph(fonts, 1, WhiteSquare)), WhiteSquare)
       ELSE [kind |-> "rect"]

\* what a drawn glyph is, leaving out how it was rasterized
ChoiceOf(d) ==
  IF d.kind = "glyph"
  THEN [kind |-> "glyph", font |-> d.font, glyph_index |-> d.glyph_index]
  ELSE [kind |-> d.kind]

\* C24: for every character of a text drawn with a font group, the glyph
\* drawn is the first font's when it has one for the character, otherwise
\* that of the first later member that has one, otherwise the glyph for
\* U+25A1 of the first member of the group that has one, otherwise a
\* space-sized rectangle.
C24_FallbackChain ==
  font_ret.op = "draw_text" =>
    \A i \in DOMAIN font_ret.drawn :
      ChoiceOf(font_ret.drawn[i])
        = ChainChoice(font_ret.fonts, font_ret.drawn[i].fb_codepoint)

\* a text of one character that the first font lacks and the second has
\* was drawn with the second font's glyph
C24_Witness ==
  /\ font_ret.op = "draw_text"
  /\ Len(font_ret.fonts) = 2
  /\ font_ret.text = <<228, 184, 173>>
  /\ font_heap[font_ret.fonts[1]].path = "sans"
  /\ font_ret.drawn[1].kind = "glyph"
  /\ font_ret.drawn[1].font = font_ret.fonts[2]
  /\ font_ret.drawn[1].glyph_index = 500


\* the step is a font call: every one of them uses the budget
FontStep == budget'.cmds < budget.cmds

\* the heap with no atlas page loaded in any font
NoPagesLoaded(heap) == [a \in DOMAIN heap |-> font_clear_glyph_cache(heap[a])]

\* C25: get_width returns the same value when it is called twice in a row
\* with the same group and text, and the value it returns is the one it
\* returns when no atlas page of any font is loaded before the call.
C25_WidthIgnoresCache ==
  [][(FontStep /\ font_ret'.op = "get_width") =>
       /\ font_ret'.value
            = font_group_get_width(NoPagesLoaded(font_heap), font_ret'.fonts,
                                   font_ret'.text).width
       /\ (/\ font_ret.op = "get_width"
           /\ font_ret.fonts = font_ret'.fonts
           /\ font_ret.text = font_ret'.text)
          => font_ret'.value = font_ret.value]_vars

\* the text U+00E9, tab was measured with a single font of size 10 from
\* the file "sans" and the width returned is not that of a space and a tab
C25_Witness ==
  /\ font_ret.op = "get_width"
  /\ font_ret.text = <<195, 169, Tab>>
  /\ Len(font_ret.fonts) = 1
  /\ font_heap[font_ret.fonts[1]].path = "sans"
  /\ font_heap[font_ret.fonts[1]].size = 10
  /\ font_ret.value # font_heap[font_ret.fonts[1]].space_advance
                        + font_heap[font_ret.fonts[1]].tab_advance

\* the fonts of a group
MembersOf(fonts) == {fonts[i] : i \in DOMAIN fonts}

\* C26: after set_size on a group no member of the group holds a loaded
\* atlas page at any phase, and every font outside the group is as it was;
\* and at every time, every page a font holds was rasterized at the pixel
\* size the font has now, so that what is looked up after set_size is
\* rasterized at the new size.
C26_SetSizeClearsPages ==
  [][/\ \A a \in DOMAIN font_heap' :
          \A key \in DOMAIN font_heap'[a].sets :
            font_heap'[a].sets[key].px = PixelSize(font_heap'[a].size)
     /\ (FontStep /\ font_ret'.op = "set_size") =>
          \A a \in DOMAIN font_heap' :
            IF a \in MembersOf(font_ret'.fonts)
            THEN DOMAIN font_heap'[a].sets = {}
            ELSE font_heap'[a] = font_heap[a]]_vars

\* set_size was called on the first of two fonts, which had pages
\* rasterized before and holds none now, while the second holds its pages
C26_Witness ==
  /\ font_ret.op = "set_size"
  /\ font_ret.fonts = <<1>>
  /\ Len(font_heap) = 2
  /\ font_heap[1].rasterized > 0
  /\ font_heap[1].size = 15
  /\ DOMAIN font_heap[1].sets = {}
  /\ DOMAIN font_heap[2].sets # {}

\* the tab size a font has: what ren_font_group_get_tab_size reads from it
TabSizeOf(font) == font_group_tab_size(<<font>>, <<1>>)

\* C27: after every font call, the tab_advance of every font is its
\* space_advance times its tab size, where the tab size is the n of the
\* call when the call is set_tab_size on a group the font is in, 2 when
\* the call made the font, and otherwise the tab size the font had before
\* the call.
C27_TabAdvanceFollowsTabSize ==
  [][FontStep =>
       \A a \in DOMAIN font_heap' :
         font_heap'[a].tab_advance
           = font_heap'[a].space_advance
               * (IF font_ret'.op = "set_tab_size" /\ a \in MembersOf(font_ret'.fonts)
                  THEN font_ret'.n
                  ELSE IF a \in DOMAIN font_heap THEN TabSizeOf(font_heap[a])
                  ELSE 2)]_vars

\* set_tab_size(4) was called on a group of two fonts and both have a tab
\* advance of four spaces
C27_Witness ==
  /\ font_ret.op = "set_tab_size"
  /\ Len(font_ret.fonts) = 2
  /\ \A a \in MembersOf(font_ret.fonts) :
       /\ font_heap[a].space_advance > 0
       /\ font_heap[a].tab_advance = font_heap[a].space_advance * 4

\* the phases at which a font holds the page of index idx
PhasesLoaded(font, idx) == {key[1] : key \in {k \in DOMAIN font.sets : k[2] = idx}}

\* C28: after every step, a font without subpixel antialiasing holds pages
\* at phase 0 only and a font with it holds, for each page index, the pages
\* of all three phases or none; and a page that a font holds before and
\* after a step was not rasterized by the step.
C28_PhasesAndNoReload ==
  [][\A a \in DOMAIN font_heap' :
       /\ \A key \in DOMAIN font_heap'[a].sets :
            PhasesLoaded(font_heap'[a], key[2])
              = IF font_heap'[a].antialiasing = FONT_ANTIALIASING_SUBPIXEL
                THEN 0..(SUBPIXEL_BITMAPS_CACHED - 1) ELSE {0}
       /\ a \in DOMAIN font_heap =>
            \A key \in DOMAIN font_heap'[a].sets \cap DOMAIN font_heap[a].sets :
              font_heap'[a].sets[key].serial = font_heap[a].sets[key].serial]_vars

\* the budget is used up by two loads and two more calls, the last a draw
\* at three quarters of a pixel with both fonts; the subpixel font holds
\* the three pages of one index, rasterized once, and the grayscale font
\* one page, at phase 0
C28_Witness ==
  /\ font_ret.op = "draw_text"
  /\ font_ret.x = 48
  /\ budget.cmds = 0
  /\ Len(font_heap) = 2
  /\ font_ret.fonts = <<1, 2>>
  /\ font_heap[1].antialiasing = FONT_ANTIALIASING_SUBPIXEL
  /\ DOMAIN font_heap[1].sets = {<<0, 0>>, <<1, 0>>, <<2, 0>>}
  /\ font_heap[1].rasterized = 3
  /\ font_heap[2].antialiasing = FONT_ANTIALIASING_GRAYSCALE
  /\ Cardinality(DOMAIN font_heap[2].sets) = 1
  /\ font_heap[2].rasterized = 1

\* what an options table asks for, "nil" or -1 when it asks for nothing
AskedAntialiasing(opts) ==
  IF opts.table THEN font_get_options(opts, -1, -1, -1).antialiasing ELSE -1
AskedStyle(opts) ==
  IF opts.table THEN font_get_options(opts, -1, -1, -1).style ELSE -1

\* C29: font.copy makes, for every member of the group, a font opened from
\* the member's path whose size, antialiasing, hinting and style are those
\* asked for, or the member's own where none is asked for, and that holds
\* no atlas page; and no font call changes a font outside the group it is
\* given (a copy changes none), so loading or clearing the pages of a font
\* leaves those of its copies and of its original alone.
C29_CopyKeepsParameters ==
  [][FontStep =>
       /\ \A a \in DOMAIN font_heap :
            (font_ret'.op \in {"load", "copy"} \/ a \notin MembersOf(font_ret'.fonts))
              => font_heap'[a] = font_heap[a]
       /\ font_ret'.op = "copy" =>
            \A i \in DOMAIN font_ret'.fonts :
              LET orig == font_heap[font_ret'.fonts[i]]
                  copy == font_heap'[font_ret'.value[i]]
                  opts == font_ret'.opts
              IN /\ font_ret'.value[i] \notin DOMAIN font_heap
                 /\ copy.path = orig.path
                 /\ copy.size = IF font_ret'.has_size THEN font_ret'.size
                                ELSE orig.size
                 /\ copy.antialiasing = IF AskedAntialiasing(opts) # -1
                                        THEN AskedAntialiasing(opts)
                                        ELSE orig.antialiasing
                 /\ copy.hinting = orig.hinting
                 /\ copy.style = IF AskedStyle(opts) # -1 THEN AskedStyle(opts)
                                 ELSE orig.style
                 /\ DOMAIN copy.sets = {}]_vars

\* an italic grayscale font that holds pages was copied with size 15 and
\* subpixel antialiasing: the copy has both, is italic, comes from the same
\* file and holds no page
C29_Witness ==
  /\ font_ret.op = "copy"
  /\ font_ret.fonts = <<1>>
  /\ font_ret.has_size
  /\ font_ret.opts = OptionsTable("subpixel", FALSE)
  /\ font_heap[1].size = 10
  /\ font_heap[1].antialiasing = FONT_ANTIALIASING_GRAYSCALE
  /\ font_heap[1].style = FONT_STYLE_ITALIC
  /\ DOMAIN font_heap[1].sets # {}
  /\ font_heap[2].path = font_heap[1].path
  /\ font_heap[2].size = 15
  /\ font_heap[2].antialiasing = FONT_ANTIALIASING_SUBPIXEL
  /\ font_heap[2].style = FONT_STYLE_ITALIC
  /\ DOMAIN font_heap[2].sets = {}

(***************************************************************************)
(* The fonts in use by recorded texts.                                     *)
(***************************************************************************)
\* the fonts the DRAW_TEXT records of a command buffer refer to
FontsRecorded(rc) ==
  UNION {{rc.command_buf[i].fonts[j] : j \in DOMAIN rc.command_buf[i].fonts} \ {NoFont} :
         i \in {k \in DOMAIN rc.command_buf : rc.command_buf[k].type = DRAW_TEXT}}

\* C30: every font that a DRAW_TEXT record in the command buffer of a
\* window or of a canvas refers to is a key of the registry table of fonts
\* in use.
C30_RecordedFontsRooted ==
  \A t \in Targets : FontsRecorded(cache[t]) \subseteq RENDERER_FONT_REF

\* a canvas holds a DRAW_TEXT record not replayed yet and the table of
\* fonts in use has a key
C30_Witness ==
  \E c \in Canvases :
    /\ FontsRecorded(cache[c]) # {}
    /\ RENDERER_FONT_REF # {}


\* C31: writing back with set_pixels the bytes get_pixels has just returned
\* for a rectangle inside the canvas leaves every pixel of the canvas as it
\* was, and get_pixels returns w * h * 4 bytes, the bytes of the surface's
\* pixels in the rectangle.
RoundTrip ==
  /\ api_ret.op = "get_pixels"
  /\ api_ret'.op = "set_pixels"
  /\ api_ret'.canvas = api_ret.canvas
  /\ api_ret'.rect = api_ret.rect
  /\ api_ret'.bytes = api_ret.bytes
  /\ api_ret.seen = surface[api_ret.canvas].px
C31_RoundTripIsNoOp ==
  [][/\ RoundTrip => surface'[api_ret.canvas].px = surface[api_ret.canvas].px
     /\ api_ret'.op = "get_pixels" =>
          /\ Len(api_ret'.bytes) = 4 * api_ret'.rect.width * api_ret'.rect.height
          /\ api_ret'.bytes = RawPixels(surface[api_ret'.canvas], api_ret'.rect)]_vars

\* C32: when a canvas is rendered after a clear, the last call of the
\* frame, every pixel is the colour the clear was given, transparent black
\* if it was given none.
LastCall(c) == hist[c].calls[Len(hist[c].calls)]
ClearedThenRendered(c) ==
  /\ hist'[c].frames = hist[c].frames + 1
  /\ hist[c].calls # <<>>
  /\ LastCall(c).kind = "clear"
C32_ClearFillsWithColor ==
  [][\A c \in Canvases :
       ClearedThenRendered(c) =>
         \A p \in DOMAIN surface'[c].px :
           surface'[c].px[p] = PixelOf(LastCall(c).asked)]_vars

\* the bytes of a canvas with a half-transparent pixel have been read and
\* written back
C31_Witness ==
  /\ api_ret.op = "set_pixels"
  /\ \E p \in DOMAIN api_ret.seen : api_ret.seen[p][4] < 255

\* a frame of a canvas that ended with a clear has been rendered
C32_Witness ==
  /\ hist[DrawnCanvas].frames > 0
  /\ hist[DrawnCanvas].cmds # <<>>
  /\ LET last == hist[DrawnCanvas].cmds[Len(hist[DrawnCanvas].cmds)]
     IN /\ last.type = DRAW_RECT
        /\ last.rect = Rect(0, 0, CanvasWidth, CanvasHeight)


\* C33: draw_poly accepts a table only when every sub-table has 2, 6 or 8
\* coordinates and the points are no more than the maximum; the points it
\* records carry the tags NORMAL; NORMAL, CONIC, NORMAL; NORMAL, CUBIC,
\* CUBIC, NORMAL of their sub-tables; every other table gives an error at
\* the call, and the call appends no record and changes nothing else.
RECURSIVE PointCount(_)
PointCount(tables) ==
  IF tables = <<>> THEN 0 ELSE Len(Head(tables)) \div 2 + PointCount(Tail(tables))
ValidTables(tables) ==
  /\ \A i \in DOMAIN tables : Len(tables[i]) \in {2, 6, 8}
  /\ PointCount(tables) <= MAX_POLY_POINTS
RECURSIVE TagsOf(_)
TagsOf(tables) ==
  IF tables = <<>> THEN <<>>
  ELSE (CASE Len(Head(tables)) = 2 -> <<POLY_NORMAL>>
          [] Len(Head(tables)) = 6 ->
               <<POLY_NORMAL, POLY_CONTROL_CONIC, POLY_NORMAL>>
          [] Len(Head(tables)) = 8 ->
               <<POLY_NORMAL, POLY_CONTROL_CUBIC, POLY_CONTROL_CUBIC, POLY_NORMAL>>)
       \o TagsOf(Tail(tables))
PolyRecorded(t) ==
  /\ Len(hist'[t].calls) = Len(hist[t].calls) + 1
  /\ hist'[t].calls[Len(hist'[t].calls)].cmd.type = DRAW_POLY
C33_PolyTablesChecked ==
  [][/\ api_ret'.op = "draw_poly" =>
          (api_ret'.error = "none" <=> ValidTables(api_ret'.tables))
     /\ \A t \in Windows :
          PolyRecorded(t) =>
            LET cmd == hist'[t].calls[Len(hist'[t].calls)].cmd
            IN /\ api_ret'.op = "draw_poly"
               /\ ValidTables(api_ret'.tables)
               /\ cmd.npoints = PointCount(api_ret'.tables)
               /\ [k \in 1..cmd.npoints |-> cmd.points[k].tag]
                    = TagsOf(api_ret'.tables)
     /\ (api_ret' # api_ret /\ api_ret'.op = "draw_poly"
           /\ api_ret'.error # "none") =>
          UNCHANGED <<target_window, cache, surface, snaps, RENDERER_FONT_REF,
                      RENDERER_CANVAS_REF, presented, show_vars, font_vars, aux_vars,
                      aborted, hist>>]_vars

\* a table with a sub-table of four coordinates and one with too many points
\* have been refused, and a cubic segment has been recorded
C33_Witness ==
  /\ api_ret.op = "draw_poly"
  /\ api_ret.error = "too many points"
  /\ \E i \in DOMAIN hist["w1"].calls :
       /\ hist["w1"].calls[i].cmd.type = DRAW_POLY
       /\ hist["w1"].calls[i].cmd.npoints = MAX_POLY_POINTS


\* C38: every rectangle the end_frame of a window hands to the presenting
\* step has a positive width and height and lies inside the screen
\* rectangle, and when no scanned cell differs from the frame before the
\* presenting step is not called.
InsideRect(r, outer) ==
  /\ r.x >= outer.x
  /\ r.y >= outer.y
  /\ r.x + r.width <= outer.x + outer.width
  /\ r.y + r.height <= outer.y + outer.height
NoCellChanged(rc) ==
  LET grid == hash_pass(rc.command_buf, 1, rc.screen_rect, GridOf(rc, rc.cells),
                        RefCounts).grid
  IN \A c \in ScannedCells(rc) :
       grid[cell_idx(c[1], c[2])] = GridOf(rc, rc.cells_prev)[cell_idx(c[1], c[2])]
C38_PresentedRectsInScreen ==
  [][\A w \in Windows :
       (target_window = w /\ target_window' = NoTarget) =>
         /\ \A i \in DOMAIN presented'[w] :
              /\ presented'[w][i].width > 0
              /\ presented'[w][i].height > 0
              /\ InsideRect(presented'[w][i], cache[w].screen_rect)
         /\ NoCellChanged(cache[w]) =>
              presented'[w] = <<>> /\ show_calls' = show_calls]_vars


\* C34: in the diff scan a cell that differs is pushed as a rect of one cell
\* when no stored rect overlaps or touches it, and otherwise the last stored
\* rect that does is replaced by its union with the cell, the rest of the
\* buffer staying as it is; a cell that does not differ leaves the buffer
\* alone; and when the scan is over every cell of the screen whose hashes
\* differed is inside a rect of the buffer.
CellsOfRect(r) == (r.x..(r.x + r.width - 1)) \X (r.y..(r.y + r.height - 1))
Touches(r, x, y) ==
  \E c \in CellsOfRect(r) :
    /\ c[1] - x \in {-1, 0, 1}
    /\ c[2] - y \in {-1, 0, 1}
BoundingBox(r, x, y) ==
  LET x1 == IF x < r.x THEN x ELSE r.x
      y1 == IF y < r.y THEN y ELSE r.y
      x2 == IF x + 1 > r.x + r.width THEN x + 1 ELSE r.x + r.width
      y2 == IF y + 1 > r.y + r.height THEN y + 1 ELSE r.y + r.height
  IN Rect(x1, y1, x2 - x1, y2 - y1)
InScreenCell(x, y) ==
  /\ x >= 0
  /\ y >= 0
  /\ x * CellSize < scan.screen_rect.width
  /\ y * CellSize < scan.screen_rect.height
ScanCellStep == scan.phase = "scan" /\ scan'.phase = "scan" /\ scan'.k = scan.k + 1
MergeStep ==
  LET x == scan.k % scan.max_x
      y == scan.k \div scan.max_x
      buf == scan.rect_buf
      touching == {i \in DOMAIN buf : Touches(buf[i], x, y)}
  IN /\ IF scan.cells[cell_idx(x, y)] = scan.cells_prev[cell_idx(x, y)]
        THEN scan'.rect_buf = buf
        ELSE IF touching = {}
        THEN scan'.rect_buf = Append(buf, Rect(x, y, 1, 1))
        ELSE \E m \in touching :
               /\ \A i \in touching : i <= m
               /\ scan'.rect_buf = [buf EXCEPT ![m] = BoundingBox(buf[m], x, y)]
     /\ scan'.k = scan.max_x * scan.max_y =>
          \A cx \in 0..(scan.max_x - 1), cy \in 0..(scan.max_y - 1) :
            (/\ InScreenCell(cx, cy)
             /\ scan.cells[cell_idx(cx, cy)] # scan.first_prev[cell_idx(cx, cy)])
            => \E i \in DOMAIN scan'.rect_buf :
                 <<cx, cy>> \in CellsOfRect(scan'.rect_buf[i])
C34_MergeKeepsChangedCells == [][ScanCellStep => MergeStep]_vars

\* the same for the screens narrower and lower than the grid, which holds
MergeInsideGrid ==
  [][(ScanCellStep /\ scan.max_x <= CellsX /\ scan.max_y <= CellsY)
       => MergeStep]_vars

\* a scan is over that merged a cell into a rect stored before the last one
\* and left more than one rect
C34_Witness ==
  /\ scan.phase = "scan"
  /\ scan.k = scan.max_x * scan.max_y
  /\ Len(scan.rect_buf) >= 2
  /\ \E i \in DOMAIN scan.rect_buf :
       scan.rect_buf[i].width > 1 /\ scan.rect_buf[i].height > 1

C38_Witness ==
  /\ hist["w1"].frames >= 2
  /\ cache["w1"].screen_rect.width = CellsX * CellSize
  /\ presented["w1"] # <<>>


\* C35: for every window and canvas, at any time, the write index of the
\* command buffer is a multiple of the alignment and at most the capacity,
\* and the loop over the records from offset 0, each step as long as the
\* record's size field, visits the records pushed, each once and in the
\* order pushed, and ends at the write index, also when nothing was pushed
\* or the buffer was never allocated.
C35_BufferWalk ==
  \A t \in Targets :
    LET rc == cache[t]
        walk == command_walk(rc, NoCommand, <<>>, Len(rc.command_buf))
    IN /\ rc.command_buf_idx % MaxAlign = 0
       /\ rc.command_buf_idx <= rc.command_buf_size
       /\ walk.ended
       /\ walk.at = rc.command_buf_idx
       /\ walk.visited = [i \in DOMAIN rc.command_buf |->
                            RecordOffset(rc.command_buf, i)]
       /\ \A i \in DOMAIN rc.command_buf : rc.command_buf[i].size > 0

\* a buffer that grew holds two records of different sizes, while another
\* target's buffer was never allocated
C35_Witness ==
  /\ Len(cache["w1"].command_buf) >= 2
  /\ cache["w1"].command_buf[1].size # cache["w1"].command_buf[2].size
  /\ cache["w1"].command_buf_size > CMD_BUF_INIT_SIZE
  /\ cache["w2"].command_buf_size = 0

\* ---------------------------------------------------------------------------
\* C36: end_frame does not change the tab size of any font: tab_advance of
\* every loaded font is after end_frame what it was before, also when
\* set_tab_size was called on the font after a draw_text of the same frame
EndFrameStep == target_window \in Windows /\ target_window' = NoTarget

C36_EndFrameKeepsTabSize ==
  [][EndFrameStep =>
       \A a \in DOMAIN font_heap :
          font_heap'[a].tab_advance = font_heap[a].tab_advance]_vars

\* the frame has ended, it recorded a text of font1, and font1's tab size is
\* not the one the last font call, a set_tab_size on it, gave it
C36_Witness ==
  /\ target_window = NoTarget
  /\ hist["w1"].frames > 0
  /\ \E i \in DOMAIN hist["w1"].cmds :
        /\ hist["w1"].cmds[i].type = DRAW_TEXT
        /\ hist["w1"].cmds[i].fonts[1] = "font1"
  /\ font_ret.op = "set_tab_size"
  /\ font_ret.fonts = <<1>>
  /\ font_heap[1].tab_advance # font_heap[1].space_advance * font_ret.n

\* ---------------------------------------------------------------------------
\* C37: the clip rect a draw command was tested against when it was recorded
\* (last_clip_rect) is the running clip rect the hash pass applies to its
\* record (and the redraw pass, intersected with the dirty rect), on windows
\* and canvases, in the first frame and in later ones; last_clip_rect is the
\* full screen rect when a frame starts and always lies within the screen rect
DrawRecorded(t) ==
  /\ Len(cache'[t].command_buf) = Len(cache[t].command_buf) + 1
  /\ cache'[t].command_buf[Len(cache'[t].command_buf)].type # SET_CLIP

FrameStarts(t) ==
  /\ Len(cache'[t].command_buf) = 0
  /\ \/ t \in Windows /\ target_window # t /\ target_window' = t
     \/ t \in Canvases /\ hist'[t].frames = hist[t].frames + 1

C37_ClipTestedIsClipApplied ==
  [][\A t \in Targets :
       /\ DrawRecorded(t) =>
            cache[t].last_clip_rect =
              hash_pass_clip(cache[t].command_buf, 1, cache[t].screen_rect)
       /\ FrameStarts(t) => cache'[t].last_clip_rect = cache'[t].screen_rect
       /\ intersect_rects(cache'[t].last_clip_rect, cache'[t].screen_rect)
            = cache'[t].last_clip_rect]_vars

\* a canvas in a frame after its first render, holding a draw record and no
\* clip record, whose last_clip_rect is not its screen rect
C37_Witness ==
  \E c \in Canvases :
    /\ hist[c].frames > 0
    /\ Len(cache[c].command_buf) > 0
    /\ \A i \in DOMAIN cache[c].command_buf : cache[c].command_buf[i].type # SET_CLIP
    /\ cache[c].last_clip_rect # cache[c].screen_rect

\* the same statement for the windows alone
C37_WindowClipTestedIsClipApplied ==
  [][\A t \in Windows :
       /\ DrawRecorded(t) =>
            cache[t].last_clip_rect =
              hash_pass_clip(cache[t].command_buf, 1, cache[t].screen_rect)
       /\ FrameStarts(t) => cache'[t].last_clip_rect = cache'[t].screen_rect
       /\ intersect_rects(cache'[t].last_clip_rect, cache'[t].screen_rect)
            = cache'[t].last_clip_rect]_vars

\* ---------------------------------------------------------------------------
\* C40: over any sequence of window create, persist, restore and handle
\* collection, no window is destroyed more than once, no live handle
\* (original or restored) refers to a destroyed window, and the collection
\* of a handle never destroys the currently persisted window
DestroyedNow(w) ==
  /\ w \in DOMAIN renwin.windows
  /\ renwin'.windows[w].destroyed > renwin.windows[w].destroyed

C40_WindowLifetimes ==
  [][/\ \A w \in DOMAIN renwin'.windows : renwin'.windows[w].destroyed <= 1
     /\ \A h \in DOMAIN renwin'.handles :
          renwin'.handles[h].live =>
            renwin'.windows[renwin'.handles[h].window].destroyed = 0
     /\ \A w \in DOMAIN renwin.windows :
          DestroyedNow(w) => renwin.windows[w].addr # renwin.persistant_window]_vars

\* a window was persisted and restored, another was persisted after it, and
\* the collection of the first window's original handle destroyed it while
\* the restored handle is live
C40_Witness ==
  \E h1, h2 \in DOMAIN renwin.handles :
    /\ h1 # h2
    /\ renwin.handles[h1].window = renwin.handles[h2].window
    /\ ~renwin.handles[h1].live
    /\ renwin.handles[h2].live
    /\ renwin.windows[renwin.handles[h2].window].destroyed = 1
    /\ renwin.persistant_window # renwin.handles[h2].addr

\* the part of C40 about the persisted window alone
C40_PersistedWindowNotCollected ==
  [][\A w \in DOMAIN renwin.windows :
       DestroyedNow(w) => renwin.windows[w].addr # renwin.persistant_window]_vars

====
